---- MODULE Spec2Model ----
(***************************************************************************)
(* Workflow coordination core of software_engineering_team:                *)
(*   core/state_machine.py      StateMachine                               *)
(*   communication/event_bus.py EventBus (over asyncio.Queue)              *)
(*   core/orchestrator.py       Orchestrator                               *)
(* One action is one run of a coroutine from the point where it is resumed *)
(* to the point where it next suspends (asyncio is cooperative).           *)
(***************************************************************************)
EXTENDS Integers, Sequences, FiniteSets, TLC

\* ------------------------------------------------------------------------
\* Bounds of the model
\* ------------------------------------------------------------------------
\* longest state_history explored by the state-machine specification
MaxHistoryLen == 4
\* EventBus(max_queue_size=...): mailbox capacity, scaled down from 1000
max_queue_size == 2
\* EventBus._max_history, scaled down from 100
max_history == 2
\* number of messages the participants construct in one behaviour
MaxMsgs == 3
\* number of participant tasks cancelled in one behaviour
MaxCancels == 1
\* number of messages off the expected course that the workers send
MaxOff == 2
\* number of ADRs the architect saves
MaxAdrs == 2
\* number of start_project calls in one behaviour of SpecStart
MaxStarts == 2

\* ------------------------------------------------------------------------
\* core/state_machine.py
\* ------------------------------------------------------------------------
IDEA == "idea"
ANALYSIS == "analysis"
ARCHITECTURE == "architecture"
DESIGN == "design"
IMPLEMENTATION == "implementation"
TESTING == "testing"
REVIEW == "review"
DELIVERY == "delivery"
FAILED == "failed"

ProjectState ==
    {IDEA, ANALYSIS, ARCHITECTURE, DESIGN, IMPLEMENTATION, TESTING, REVIEW,
     DELIVERY, FAILED}

Range(s) == {s[i] : i \in DOMAIN s}

\* x in list
InList(x, s) == \E i \in DOMAIN s : s[i] = x

TRANSITIONS_restart ==
    [s \in ProjectState |->
        CASE s = IDEA -> <<ANALYSIS>>
          [] s = ANALYSIS -> <<ARCHITECTURE, FAILED>>
          [] s = ARCHITECTURE -> <<DESIGN, ANALYSIS, FAILED>>
          [] s = DESIGN -> <<IMPLEMENTATION, ARCHITECTURE, FAILED>>
          [] s = IMPLEMENTATION -> <<TESTING, DESIGN, FAILED>>
          [] s = TESTING -> <<REVIEW, IMPLEMENTATION, FAILED>>
          [] s = REVIEW -> <<DELIVERY, IMPLEMENTATION, FAILED>>
          [] s = DELIVERY -> <<IDEA>>
          [] s = FAILED -> <<>>]

TRANSITIONS ==
    [s \in ProjectState |->
        CASE s = IDEA -> <<ANALYSIS>>
          [] s = ANALYSIS -> <<ARCHITECTURE, FAILED>>
          [] s = ARCHITECTURE -> <<DESIGN, ANALYSIS, FAILED>>
          [] s = DESIGN -> <<IMPLEMENTATION, ARCHITECTURE, FAILED>>
          [] s = IMPLEMENTATION -> <<TESTING, DESIGN, FAILED>>
          [] s = TESTING -> <<REVIEW, IMPLEMENTATION, FAILED>>
          [] s = REVIEW -> <<DELIVERY, IMPLEMENTATION, FAILED>>
          [] s = DELIVERY -> <<>>
          [] s = FAILED -> <<>>]

STATE_AGENT_MAP ==
    [s \in ProjectState |->
        CASE s = IDEA -> "orchestrator"
          [] s = ANALYSIS -> "analyst"
          [] s = ARCHITECTURE -> "architect"
          [] s = DESIGN -> "designer"
          [] s = IMPLEMENTATION -> "backend"
          [] s = TESTING -> "qa"
          [] s = REVIEW -> "cto"
          [] s = DELIVERY -> "orchestrator"
          [] s = FAILED -> "orchestrator"]

\* a dict without the keys IDEA and FAILED
REQUIRED_DELIVERABLES ==
    [s \in ProjectState \ {IDEA, FAILED} |->
        CASE s = ANALYSIS -> <<"functional_spec.md", "user_stories.yaml">>
          [] s = ARCHITECTURE -> <<"architecture.md", "openapi.yaml", "decisions.md">>
          [] s = DESIGN -> <<"design_system.md", "wireframes.md">>
          [] s = IMPLEMENTATION -> <<"backend_code", "frontend_code">>
          [] s = TESTING -> <<"test_plan.md", "test_results.md">>
          [] s = REVIEW -> <<"cto_review.md">>
          [] s = DELIVERY -> <<>>]

\* valid_next_states = self.TRANSITIONS.get(self.current_state, [])
\* return target_state in valid_next_states
can_transition_to_rev(cur, target) ==
    IF target \in DOMAIN TRANSITIONS THEN InList(cur, TRANSITIONS[target]) ELSE FALSE

can_transition_to(cur, target) ==
    IF cur \in DOMAIN TRANSITIONS THEN InList(target, TRANSITIONS[cur]) ELSE FALSE

\* the state machine after transition_to(target), with its return value
transition_to_unchecked(cur, hist, target) ==
    [ok |-> can_transition_to(cur, target), state |-> target,
     hist |-> Append(hist, target)]

transition_to_unrecorded(cur, hist, target) ==
    IF ~can_transition_to(cur, target)
    THEN [ok |-> FALSE, state |-> cur, hist |-> hist]
    ELSE [ok |-> TRUE, state |-> target, hist |-> hist]

transition_to(cur, hist, target) ==
    IF ~can_transition_to(cur, target)
    THEN [ok |-> FALSE, state |-> cur, hist |-> hist]
    ELSE [ok |-> TRUE, state |-> target, hist |-> Append(hist, target)]

workflow_order_skipping ==
    <<IDEA, ANALYSIS, DESIGN, ARCHITECTURE, IMPLEMENTATION, TESTING, REVIEW, DELIVERY>>

workflow_order ==
    <<IDEA, ANALYSIS, ARCHITECTURE, DESIGN, IMPLEMENTATION, TESTING, REVIEW, DELIVERY>>

None == "None"

\* workflow_order.index(current) + 1, None past the end or on ValueError
get_next_state(cur) ==
    IF InList(cur, workflow_order)
    THEN LET idx == CHOOSE i \in DOMAIN workflow_order : workflow_order[i] = cur
         IN IF idx < Len(workflow_order) THEN workflow_order[idx + 1] ELSE None
    ELSE None

get_responsible_agent(state) ==
    IF state \in DOMAIN STATE_AGENT_MAP THEN STATE_AGENT_MAP[state] ELSE "orchestrator"

get_required_deliverables(state) ==
    IF state \in DOMAIN REQUIRED_DELIVERABLES THEN REQUIRED_DELIVERABLES[state] ELSE <<>>

is_terminal_state(state) == state \in {DELIVERY, FAILED}

state_weights ==
    [s \in ProjectState |->
        CASE s = IDEA -> 0
          [] s = ANALYSIS -> 10
          [] s = ARCHITECTURE -> 25
          [] s = DESIGN -> 40
          [] s = IMPLEMENTATION -> 70
          [] s = TESTING -> 85
          [] s = REVIEW -> 95
          [] s = DELIVERY -> 100
          [] s = FAILED -> 0]

get_progress_percentage(cur) ==
    IF cur \in DOMAIN state_weights THEN state_weights[cur] ELSE 0

\* ------------------------------------------------------------------------
\* State
\* ------------------------------------------------------------------------
VARIABLES
    current_state,          \* StateMachine.current_state
    state_history,          \* StateMachine.state_history
    queues,                 \* EventBus._queues: name -> asyncio.Queue (items, _putters)
    subscribers,            \* EventBus._subscribers
    history,                \* EventBus._history
    stats,                  \* EventBus._stats
    tasks,                  \* per coroutine task: where it is suspended
    bc_tasks,               \* tasks made by asyncio.create_task, in creation order
    project_idea,           \* Orchestrator.project_idea
    deliverables_received,  \* Orchestrator.deliverables_received
    blockers,               \* Orchestrator.blockers
    is_running,             \* Orchestrator.is_running
    current_agent,          \* Orchestrator.current_agent
    loops,                  \* participants whose listen() generator is running
    artifacts,              \* names for which ArtifactStore.exists(name) is true
    adrs,                   \* ADRManager: ADR id -> status
    nsent,                  \* number of messages counted against MaxMsgs
    nstarts,                \* number of start_project calls
    last                    \* the operation that made the last step, with its result

vars ==
    <<current_state, state_history, queues, subscribers, history, stats, tasks,
      bc_tasks, project_idea, deliverables_received, blockers, is_running,
      current_agent, loops, artifacts, adrs, nsent, nstarts, last>>

smVars == <<current_state, state_history>>
busVars == <<queues, subscribers, history, stats>>
orchVars ==
    <<project_idea, deliverables_received, blockers, is_running, current_agent>>
extVars == <<artifacts, adrs>>

\* ------------------------------------------------------------------------
\* communication/schemas.py
\* ------------------------------------------------------------------------
TASK == "task"
DELIVERABLE == "deliverable"
CLARIFICATION == "clarification"
STATUS == "status"
ERROR == "error"
STATE_CHANGE == "state_change"
BROADCAST == "broadcast"

\* Message(from_agent, to_agent, type, content, blocking); id stands for the
\* identity of the Python object
Message(id, from, to, type, content, blocking) ==
    [id |-> id, from_agent |-> from, to_agent |-> to, type |-> type,
     content |-> content, blocking |-> blocking]

\* dict.get(key, default)
Get(d, k, default) == IF k \in DOMAIN d THEN d[k] ELSE default

\* ------------------------------------------------------------------------
\* communication/event_bus.py
\* ------------------------------------------------------------------------
Bus ==
    [queues |-> queues, subscribers |-> subscribers, history |-> history,
     stats |-> stats]

EmptyQueue == [items |-> <<>>, putters |-> <<>>]

InitStats == [total_messages |-> 0, messages_by_type |-> <<>>, messages_by_agent |-> <<>>]

\* defaultdict(int)[k] += 1
Inc(d, k) == IF k \in DOMAIN d THEN [d EXCEPT ![k] = @ + 1] ELSE d @@ (k :> 1)

\* EventBus._get_queue: the bus after the call
get_queue(b, agent_name) ==
    IF agent_name \in DOMAIN b.queues
    THEN b
    ELSE [b EXCEPT !.queues = @ @@ (agent_name :> EmptyQueue)]

\* EventBus.get_queue_size
get_queue_size(b, agent_name) ==
    IF agent_name \notin DOMAIN b.queues THEN 0 ELSE Len(b.queues[agent_name].items)

FullNever(q) == FALSE

\* asyncio.Queue.full() of a queue made with maxsize=max_queue_size: a queue
\* whose maxsize is not positive is never full
Full(q) == IF max_queue_size <= 0 THEN FALSE ELSE Len(q.items) >= max_queue_size

\* asyncio.Queue.put_nowait on a queue that is not full
PutNowait(b, agent_name, message) ==
    [b EXCEPT !.queues[agent_name].items = Append(@, message)]

StoreInHistoryKeepOldest(h, message) ==
    IF Len(h) >= max_history THEN h ELSE Append(h, message)

\* self._history.append(message); pop(0) past _max_history
StoreInHistory(h, message) ==
    LET h1 == Append(h, message)
    IN IF Len(h1) > max_history THEN Tail(h1) ELSE h1

\* the statistics and history update that ends a successful send
RecordSend(b, message) ==
    [b EXCEPT !.stats.total_messages = @ + 1,
              !.stats.messages_by_type = Inc(@, message.type),
              !.stats.messages_by_agent = Inc(@, message.from_agent),
              !.history = StoreInHistory(@, message)]

\* the statistics and history update that ends a broadcast
RecordBroadcast(b, message) ==
    [b EXCEPT !.stats.total_messages = @ + Cardinality(b.subscribers),
              !.stats.messages_by_type = Inc(@, message.type),
              !.stats.messages_by_agent = Inc(@, message.from_agent),
              !.history = StoreInHistory(@, message)]

\* a coroutine that is not suspended inside the bus
Idle == [st |-> "idle"]

\* await queue.put(message) on a full queue: the caller joins _putters
Suspend(b, t, agent_name) ==
    [b EXCEPT !.queues[agent_name].putters = Append(@, t)]

\* EventBus.send to a named mailbox, lines 92-120, called by task t.
\* wait is the suspension of t inside queue.put, or Idle when send returned.
send_direct(b, t, message, cont) ==
    LET b1 == get_queue(b, message.to_agent)
    IN IF Full(b1.queues[message.to_agent])
       THEN [bus |-> Suspend(b1, t, message.to_agent),
             wait |-> [st |-> "put", kind |-> "send", q |-> message.to_agent,
                       msg |-> message, cont |-> cont],
             raised |-> None]
       ELSE [bus |-> RecordSend(PutNowait(b1, message.to_agent, message), message),
             wait |-> Idle, raised |-> None]

\* queue.put(message) into every mailbox of D (none of them full)
RECURSIVE PutEach(_, _, _)
PutEach(b, D, message) ==
    IF D = {} THEN b
    ELSE LET s == CHOOSE x \in D : TRUE
         IN PutEach(PutNowait(get_queue(b, s), s, message), D \ {s}, message)

\* the subscribers a broadcast of message still has to serve, among R
TargetsWithSender(R, message) == R

Targets(R, message) == {s \in R : s # message.from_agent}

\* The for loop of EventBus.broadcast from the subscribers R not yet visited,
\* run until it suspends in queue.put or ends: the set of possible results
\* (a set is iterated in an order the program does not choose).
BroadcastLoop(b, t, message, R, snap, cont) ==
    LET todo == Targets(R, message)
        full == {s \in todo : s \in DOMAIN b.queues /\ Full(b.queues[s])}
        ok == todo \ full
    IN IF full = {}
       THEN {[bus |-> RecordBroadcast(PutEach(b, ok, message), message),
              wait |-> Idle, raised |-> None]}
       ELSE {[bus |-> Suspend(PutEach(b, D, message), t, f),
              wait |-> [st |-> "put", kind |-> "bcast", q |-> f, msg |-> message,
                        rest |-> todo \ (D \cup {f}), snap |-> snap, cont |-> cont],
              raised |-> None] : D \in SUBSET ok, f \in full}

\* EventBus.broadcast, lines 188-217: message.to_agent = "broadcast", then the loop
broadcast(b, t, message, cont) ==
    LET m == [message EXCEPT !.to_agent = "broadcast"]
    IN BroadcastLoop(b, t, m, b.subscribers, b.subscribers, cont)

\* EventBus.send, lines 72-120: the possible results of send(message) by task t
send(b, t, message, cont) ==
    IF message.to_agent = "broadcast" \/ message.type = BROADCAST
    THEN broadcast(b, t, message, cont)
    ELSE {send_direct(b, t, message, cont)}

\* asyncio.Queue._wakeup_next(self._putters): the first waiting putter
WakeNext(q) == IF q.putters = <<>> THEN None ELSE Head(q.putters)

\* EventBus.receive on a mailbox that holds a message: queue.get() returns the
\* oldest item and wakes the first suspended putter
receive_last(b, agent_name) ==
    LET q == b.queues[agent_name]
    IN [bus |-> [b EXCEPT !.queues[agent_name] =
                    [items |-> SubSeq(q.items, 1, Len(q.items) - 1),
                     putters |-> IF q.putters = <<>> THEN <<>> ELSE Tail(q.putters)]],
        message |-> q.items[Len(q.items)],
        woke |-> WakeNext(q)]

receive(b, agent_name) ==
    LET q == b.queues[agent_name]
    IN [bus |-> [b EXCEPT !.queues[agent_name] =
                    [items |-> Tail(q.items),
                     putters |-> IF q.putters = <<>> THEN <<>> ELSE Tail(q.putters)]],
        message |-> Head(q.items),
        woke |-> WakeNext(q)]

\* the bus variables take the values of record b
SetBus(b) ==
    /\ queues' = b.queues
    /\ subscribers' = b.subscribers
    /\ history' = b.history
    /\ stats' = b.stats

\* ------------------------------------------------------------------------
\* Construction
\* ------------------------------------------------------------------------
Agents ==
    {"orchestrator", "analyst", "architect", "designer", "backend", "frontend",
     "qa", "cto"}

\* the coroutine tasks that exist from the start: one loop per participant and
\* the entry point (main.py run_project)
TaskIds == Agents \cup {"main"}

\* StateMachine.__init__(initial_state), EventBus.__init__, Orchestrator.__init__
Constructed(initial_state) ==
    /\ current_state = initial_state
    /\ state_history = <<initial_state>>
    /\ queues = <<>>
    /\ subscribers = {}
    /\ history = <<>>
    /\ stats = InitStats
    /\ tasks = [t \in TaskIds |-> Idle]
    /\ bc_tasks = <<>>
    /\ project_idea = None
    /\ deliverables_received = <<>>
    /\ blockers = <<>>
    /\ is_running = FALSE
    /\ current_agent = None
    /\ loops = {}
    /\ nsent = 0
    /\ nstarts = 0
    /\ last = [op |-> "init"]

\* ------------------------------------------------------------------------
\* The state machine on its own: any caller, any argument
\* ------------------------------------------------------------------------
InitSM ==
    /\ \E s \in ProjectState : Constructed(s)
    /\ artifacts = {}
    /\ adrs = <<>>

SM_can_transition_to(target) ==
    /\ last' = [op |-> "can_transition_to", arg |-> target,
                ret |-> can_transition_to(current_state, target)]
    /\ UNCHANGED <<smVars, busVars, tasks, bc_tasks, orchVars, loops, extVars, nsent, nstarts>>

SM_transition_to(target) ==
    /\ Len(state_history) < MaxHistoryLen
    /\ LET r == transition_to(current_state, state_history, target)
       IN /\ current_state' = r.state
          /\ state_history' = r.hist
          /\ last' = [op |-> "transition_to", arg |-> target, ret |-> r.ok]
    /\ UNCHANGED <<busVars, tasks, bc_tasks, orchVars, loops, extVars, nsent, nstarts>>

SM_get_next_state ==
    /\ last' = [op |-> "get_next_state", arg |-> None,
                ret |-> get_next_state(current_state)]
    /\ UNCHANGED <<smVars, busVars, tasks, bc_tasks, orchVars, loops, extVars, nsent, nstarts>>

SM_reset_phase_only ==
    /\ current_state' = IDEA
    /\ state_history' = state_history
    /\ last' = [op |-> "reset", arg |-> None, ret |-> None]
    /\ UNCHANGED <<busVars, tasks, bc_tasks, orchVars, loops, extVars, nsent, nstarts>>

\* StateMachine.reset
SM_reset ==
    /\ current_state' = IDEA
    /\ state_history' = <<IDEA>>
    /\ last' = [op |-> "reset", arg |-> None, ret |-> None]
    /\ UNCHANGED <<busVars, tasks, bc_tasks, orchVars, loops, extVars, nsent, nstarts>>

NextSM ==
    \/ \E target \in ProjectState : SM_can_transition_to(target)
    \/ \E target \in ProjectState : SM_transition_to(target)
    \/ SM_get_next_state
    \/ SM_reset

SpecSM == InitSM /\ [][NextSM]_vars

\* ------------------------------------------------------------------------
\* The bus on its own: a few participants that send, broadcast, listen and
\* receive in any order
\* ------------------------------------------------------------------------
BusClients == {"orchestrator", "analyst", "architect"}
BusSenders == {"orchestrator", "analyst"}
\* to_agent and type of the messages a sender sends
BusDestinations(c) ==
    {<<"analyst", STATUS>>, <<"architect", STATUS>>,
     IF c = "orchestrator" THEN <<"broadcast", STATE_CHANGE>>
                           ELSE <<"architect", BROADCAST>>}

InitBus ==
    /\ Constructed(IDEA)
    /\ artifacts = {}
    /\ adrs = <<>>

\* the coroutine t, suspended in queue.put, is scheduled again
Wake(ts, t) == IF t = None THEN ts ELSE [ts EXCEPT ![t].st = "woken"]

\* a task made by create_task ends when its coroutine returns
EndTask(ts, t, wait) ==
    IF t \in TaskIds \/ wait.st # "idle"
    THEN [ts EXCEPT ![t] = wait]
    ELSE [x \in DOMAIN ts \ {t} |-> ts[x]]

\* participant c calls bus.send(message)
BusSend(c, to, type) ==
    /\ tasks[c].st = "idle"
    /\ nsent < MaxMsgs
    /\ LET m == Message(nsent + 1, c, to, type, [status |-> "working"], FALSE)
           wasfull == to \in DOMAIN queues /\ Full(queues[to])
       IN \E r \in send(Bus, c, m, "none") :
            /\ SetBus(r.bus)
            /\ tasks' = [tasks EXCEPT ![c] = r.wait]
            /\ last' = [op |-> "send", who |-> c, msg |-> m, wasfull |-> wasfull,
                        returned |-> r.wait.st = "idle", raised |-> r.raised]
    /\ nsent' = nsent + 1
    /\ UNCHANGED <<smVars, bc_tasks, orchVars, loops, extVars, nstarts>>

\* participant a receives the oldest message of its mailbox
BusReceive(a) ==
    /\ tasks[a].st = "idle"
    /\ a \in DOMAIN queues
    /\ queues[a].items # <<>>
    /\ LET r == receive(Bus, a)
       IN /\ SetBus(r.bus)
          /\ tasks' = Wake(tasks, r.woke)
          /\ last' = [op |-> "receive", who |-> a, msg |-> r.message]
    /\ UNCHANGED <<smVars, bc_tasks, orchVars, loops, extVars, nsent, nstarts>>

\* EventBus.listen from its start to its first suspension: it subscribes a,
\* then waits in receive, or yields the oldest message if there is one
BusListen(a) ==
    /\ tasks[a].st = "idle"
    /\ a \notin loops
    /\ LET b == get_queue([Bus EXCEPT !.subscribers = @ \cup {a}], a)
       IN IF b.queues[a].items = <<>>
          THEN /\ SetBus(b)
               /\ last' = [op |-> "listen", who |-> a]
               /\ UNCHANGED tasks
          ELSE LET r == receive(b, a)
               IN /\ SetBus(r.bus)
                  /\ tasks' = Wake(tasks, r.woke)
                  /\ last' = [op |-> "receive", who |-> a, msg |-> r.message]
    /\ loops' = loops \cup {a}
    /\ UNCHANGED <<smVars, bc_tasks, orchVars, extVars, nsent, nstarts>>

\* a coroutine task that was cancelled or has returned
Done == [st |-> "done"]

\* the task of a is cancelled (main.py: task.cancel()) while it waits in
\* receive: CancelledError is raised inside listen, and the task ends
BusCancel(a) ==
    /\ Cardinality({t \in DOMAIN tasks : tasks[t].st = "done"}) < MaxCancels
    /\ tasks[a].st = "idle"
    /\ a \in loops
    /\ subscribers' = subscribers \ {a}
    /\ loops' = loops \ {a}
    /\ tasks' = [tasks EXCEPT ![a] = Done]
    /\ last' = [op |-> "cancel", who |-> a]
    /\ UNCHANGED <<smVars, queues, history, stats, bc_tasks, orchVars,
                   extVars, nsent, nstarts>>

\* what the caller of send does when send returns
Continue(cont, message) ==
    IF cont = "assign"
    THEN /\ current_agent' = message.to_agent
         /\ UNCHANGED <<project_idea, deliverables_received, blockers, is_running>>
    ELSE UNCHANGED orchVars

\* where the caller of send is once send has returned: an agent that sent a
\* status in execute_task awaits the language model, any other caller is back
\* in its loop
AfterSend(cont) ==
    IF cont = "exec1" THEN [st |-> "exec", step |-> 1]
    ELSE IF cont = "exec2" THEN [st |-> "exec", step |-> 2]
    ELSE Idle

\* a coroutine woken in queue.put runs again: "while self.full()" and, with
\* room, put_nowait and the rest of send or broadcast
TaskResume(t) ==
    /\ t \in DOMAIN tasks
    /\ tasks[t].st = "woken"
    /\ LET w == tasks[t]
       IN IF Full(queues[w.q])
          THEN /\ SetBus(Suspend(Bus, t, w.q))
               /\ tasks' = [tasks EXCEPT ![t].st = "put"]
               /\ last' = [op |-> "resume", who |-> t, msg |-> w.msg,
                           returned |-> FALSE, raised |-> None]
               /\ UNCHANGED orchVars
          ELSE LET b1 == PutNowait(Bus, w.q, w.msg)
               IN IF w.kind = "send"
                  THEN /\ SetBus(RecordSend(b1, w.msg))
                       /\ tasks' = EndTask(tasks, t, AfterSend(w.cont))
                       /\ last' = [op |-> "resume", who |-> t, msg |-> w.msg,
                                   returned |-> TRUE, raised |-> None]
                       /\ Continue(w.cont, w.msg)
                  ELSE IF Cardinality(b1.subscribers) # Cardinality(w.snap)
                  THEN \* RuntimeError: Set changed size during iteration
                       /\ SetBus(b1)
                       /\ tasks' = EndTask(tasks, t, Idle)
                       /\ last' = [op |-> "resume", who |-> t, msg |-> w.msg,
                                   returned |-> FALSE, raised |-> "RuntimeError"]
                       /\ UNCHANGED orchVars
                  ELSE \E X \in SUBSET (b1.subscribers \ w.snap) :
                       \E r \in BroadcastLoop(b1, t, w.msg,
                                    (w.rest \cap b1.subscribers) \cup X,
                                    b1.subscribers, w.cont) :
                          /\ SetBus(r.bus)
                          /\ tasks' = EndTask(tasks, t, r.wait)
                          /\ last' = [op |-> "resume", who |-> t, msg |-> w.msg,
                                      returned |-> r.wait.st = "idle",
                                      raised |-> None]
                          /\ UNCHANGED orchVars
    /\ UNCHANGED <<smVars, bc_tasks, loops, extVars, nsent, nstarts>>

NextBus ==
    \/ \E c \in BusSenders : \E d \in BusDestinations(c) : BusSend(c, d[1], d[2])
    \/ \E a \in BusClients : BusReceive(a)
    \/ \E a \in BusClients : BusListen(a)
    \/ \E a \in BusClients : BusCancel(a)
    \/ \E t \in DOMAIN tasks : TaskResume(t)

SpecBus == InitBus /\ [][NextBus]_vars

\* ------------------------------------------------------------------------
\* core/orchestrator.py
\* ------------------------------------------------------------------------
\* the fields a message handler of the orchestrator reads and writes
Orch ==
    [cs |-> current_state, hist |-> state_history, dr |-> deliverables_received,
     bl |-> blockers, bc |-> bc_tasks, adrs |-> adrs]

\* the name of the task that asyncio.create_task makes for the broadcast of a
\* transition: one name for each transition of each project
BcName(hist) == "bc" \o ToString(nstarts) \o "." \o ToString(Len(hist))

\* Orchestrator._transition_to_state: on success the broadcast of the change
\* is handed to asyncio.create_task and runs later
TransitionToState(o, new_state) ==
    LET r == transition_to(o.cs, o.hist, new_state)
    IN IF r.ok
       THEN [o EXCEPT !.cs = r.state, !.hist = r.hist,
                      !.bc = Append(@, [old |-> o.cs, new |-> new_state,
                                        name |-> BcName(r.hist)])]
       ELSE o

\* Orchestrator._validate_deliverables
ValidateAlways(state, dr, store) == TRUE

ValidateDeliverables(state, dr, store) ==
    LET required == get_required_deliverables(state)
        received == Get(dr, state, <<>>)
        missing == {i \in DOMAIN required :
                        ~InList(required[i], received) /\ required[i] \notin store}
    IN IF required = <<>> THEN TRUE ELSE missing = {}

ProcessFirstProposedAdr(o) ==
    [o EXCEPT !.adrs = [id \in DOMAIN @ |->
                            IF @[id] = "proposed" /\ id = "ADR-001"
                            THEN "accepted" ELSE @[id]]]

\* Orchestrator._process_proposed_adrs: accept_adr on every proposed ADR
ProcessProposedAdrs(o) ==
    [o EXCEPT !.adrs = [id \in DOMAIN @ |->
                            IF @[id] = "proposed" THEN "accepted" ELSE @[id]]]

\* Orchestrator._advance_to_next_state; assign says whether
\* _assign_task_for_current_state is called
AdvanceTwice(o) ==
    LET next_state == get_next_state(o.cs)
        o1 == IF next_state = None THEN o ELSE TransitionToState(o, next_state)
        next2 == get_next_state(o1.cs)
    IN IF next_state = None \/ next2 = None
       THEN [o |-> o1, assign |-> next_state # None]
       ELSE [o |-> TransitionToState(o1, next2), assign |-> TRUE]

AdvanceNever(o) == [o |-> o, assign |-> FALSE]

AdvanceToNextState(o) ==
    LET next_state == get_next_state(o.cs)
    IN IF next_state = None
       THEN [o |-> o, assign |-> FALSE]
       ELSE [o |-> TransitionToState(o, next_state), assign |-> TRUE]

ProcessCtoReviewAdvance(o, message) == AdvanceToNextState(o)

ProcessCtoReviewStrict(o, message) ==
    IF Get(message.content, "decision", "") = "GO"
    THEN AdvanceToNextState(o)
    ELSE [o |-> TransitionToState(o, IMPLEMENTATION), assign |-> TRUE]

ProcessCtoReviewRestart(o, message) ==
    LET decision == Get(message.content, "decision", "")
    IN IF decision = "GO" \/ decision = "CONDITIONAL GO"
       THEN AdvanceToNextState(o)
       ELSE [o |-> [o EXCEPT !.cs = ANALYSIS, !.hist = Append(@, ANALYSIS)],
             assign |-> TRUE]

\* Orchestrator._process_cto_review
ProcessCtoReview(o, message) ==
    LET decision == Get(message.content, "decision", "")
    IN IF decision = "GO" \/ decision = "CONDITIONAL GO"
       THEN AdvanceToNextState(o)
       ELSE [o |-> TransitionToState(o, IMPLEMENTATION), assign |-> TRUE]

\* dict[state].extend(artifacts), the list made first when the key is new
Extend(dr, state, items) ==
    IF state \in DOMAIN dr
    THEN [dr EXCEPT ![state] = @ \o items]
    ELSE dr @@ (state :> items)

\* Orchestrator._handle_deliverable
HandleDeliverable(o, message, store) ==
    LET artifacts_ == Get(message.content, "artifacts", <<>>)
        state == o.cs
        o1 == [o EXCEPT !.dr = Extend(@, state, artifacts_)]
    IN IF ValidateDeliverables(state, o1.dr, store)
       THEN IF state = ARCHITECTURE
            THEN AdvanceToNextState(ProcessProposedAdrs(o1))
            ELSE IF state = REVIEW
            THEN ProcessCtoReview(o1, message)
            ELSE AdvanceToNextState(o1)
       ELSE [o |-> o1, assign |-> FALSE]

\* Orchestrator._handle_clarification
HandleClarification(o, message) ==
    [o |-> [o EXCEPT !.bl = Append(@,
                [type |-> "clarification", from |-> message.from_agent,
                 question |-> Get(message.content, "question", ""),
                 context |-> Get(message.content, "context", ""),
                 blocking |-> message.blocking])],
     assign |-> FALSE]

HandleErrorIgnored(o, message) == [o |-> o, assign |-> FALSE]

\* Orchestrator._handle_error
HandleError(o, message) ==
    [o |-> [o EXCEPT !.bl = Append(@,
                [type |-> "error", from |-> message.from_agent,
                 error_type |-> Get(message.content, "error_type", "unknown"),
                 message |-> Get(message.content, "message", "")])],
     assign |-> FALSE]

HandleMessageOthersAsError(o, message, store) ==
    IF message.type = DELIVERABLE THEN HandleDeliverable(o, message, store)
    ELSE IF message.type = CLARIFICATION THEN HandleClarification(o, message)
    ELSE HandleError(o, message)

\* Orchestrator._handle_message: dispatch on message.type
HandleMessage(o, message, store) ==
    IF message.type = DELIVERABLE THEN HandleDeliverable(o, message, store)
    ELSE IF message.type = CLARIFICATION THEN HandleClarification(o, message)
    ELSE IF message.type = ERROR THEN HandleError(o, message)
    ELSE [o |-> o, assign |-> FALSE]

\* Orchestrator._build_task_description: only the ANALYSIS text holds the idea
BuildTaskDescription(state, idea) ==
    IF state = ANALYSIS THEN <<"Analyze the following project idea", idea>>
    ELSE IF state \in {ARCHITECTURE, DESIGN, IMPLEMENTATION, TESTING, REVIEW}
    THEN <<"task of", state>>
    ELSE <<"Execute phase", state>>

TaskMessageForAnalyst(state, idea) ==
    Message(0, "orchestrator", "analyst", TASK,
            [description |-> BuildTaskDescription(state, idea),
             state |-> state, project_idea |-> idea],
            FALSE)

\* the TaskMessage of Orchestrator._assign_task_for_current_state
TaskMessageFor(state, idea) ==
    Message(0, "orchestrator", get_responsible_agent(state), TASK,
            [description |-> BuildTaskDescription(state, idea),
             state |-> state, project_idea |-> idea],
            FALSE)

\* the orchestrator's fields take the values of o
SetOrch(o) ==
    /\ current_state' = o.cs
    /\ state_history' = o.hist
    /\ deliverables_received' = o.dr
    /\ blockers' = o.bl
    /\ bc_tasks' = o.bc
    /\ adrs' = o.adrs

\* _assign_task_for_current_state by task t on bus b: send the task, then
\* current_agent = agent once send has returned
AssignTask(b, t, o, idea, ts, op) ==
    LET task == TaskMessageFor(o.cs, idea)
        r == send_direct(b, t, task, "assign")
    IN /\ SetBus(r.bus)
       /\ tasks' = [ts EXCEPT ![t] = r.wait]
       /\ current_agent' = IF r.wait.st = "idle" THEN task.to_agent ELSE current_agent
       /\ last' = [op EXCEPT !.assigned = TRUE, !.task = task,
                           !.returned = r.wait.st = "idle"]

\* Orchestrator.start_project(idea), called by the entry point
StartProject(idea) ==
    /\ tasks["main"].st = "idle"
    /\ nstarts' = nstarts + 1
    /\ project_idea' = idea
    /\ LET o1 == [Orch EXCEPT !.cs = IDEA, !.hist = <<IDEA>>, !.dr = <<>>, !.bl = <<>>]
           o2 == TransitionToState(o1, ANALYSIS)
       IN /\ SetOrch(o2)
          /\ AssignTask(Bus, "main", o2, idea, tasks,
                        [op |-> "start_project", who |-> "main", idea |-> idea,
                         assigned |-> FALSE, task |-> None, returned |-> FALSE])
    /\ UNCHANGED <<is_running, loops, artifacts, nsent>>

\* the body of the loop of Orchestrator.run for one received message
OrchLoopBody(b, message, woke) ==
    IF ~is_running
    THEN \* break: the loop and the task end
         /\ SetBus(b)
         /\ tasks' = [Wake(tasks, woke) EXCEPT !["orchestrator"] = Done]
         /\ loops' = loops \ {"orchestrator"}
         /\ last' = [op |-> "break", who |-> "orchestrator", msg |-> message]
         /\ UNCHANGED <<smVars, bc_tasks, orchVars, adrs>>
    ELSE LET res == HandleMessage(Orch, message, artifacts)
             op == [op |-> "handle", who |-> "orchestrator", msg |-> message,
                    assigned |-> FALSE, task |-> None, returned |-> TRUE]
         IN /\ SetOrch(res.o)
            /\ loops' = loops \cup {"orchestrator"}
            /\ IF res.assign
               THEN AssignTask(b, "orchestrator", res.o, project_idea,
                               Wake(tasks, woke), op)
               ELSE /\ SetBus(b)
                    /\ tasks' = Wake(tasks, woke)
                    /\ last' = op
                    /\ UNCHANGED current_agent

\* Orchestrator.run from its start to its first suspension
OrchRun ==
    /\ tasks["orchestrator"].st = "idle"
    /\ "orchestrator" \notin loops
    /\ is_running' = TRUE
    /\ LET b == get_queue([Bus EXCEPT !.subscribers = @ \cup {"orchestrator"}],
                          "orchestrator")
       IN IF b.queues["orchestrator"].items = <<>>
          THEN /\ SetBus(b)
               /\ loops' = loops \cup {"orchestrator"}
               /\ last' = [op |-> "run", who |-> "orchestrator"]
               /\ UNCHANGED <<smVars, tasks, bc_tasks, project_idea,
                              deliverables_received, blockers, current_agent, adrs>>
          ELSE LET r == receive(b, "orchestrator")
                   res == HandleMessage(Orch, r.message, artifacts)
                   op == [op |-> "handle", who |-> "orchestrator",
                          msg |-> r.message, assigned |-> FALSE, task |-> None, returned |-> TRUE]
               IN /\ SetOrch(res.o)
                  /\ loops' = loops \cup {"orchestrator"}
                  /\ IF res.assign
                     THEN AssignTask(r.bus, "orchestrator", res.o, project_idea,
                                     Wake(tasks, r.woke), op)
                     ELSE /\ SetBus(r.bus)
                          /\ tasks' = Wake(tasks, r.woke)
                          /\ last' = op
                          /\ UNCHANGED current_agent
               /\ UNCHANGED project_idea
    /\ UNCHANGED <<artifacts, nsent, nstarts>>

\* the orchestrator's loop receives the next message and handles it
OrchReceive ==
    /\ tasks["orchestrator"].st = "idle"
    /\ "orchestrator" \in loops
    /\ queues["orchestrator"].items # <<>>
    /\ LET r == receive(Bus, "orchestrator")
       IN OrchLoopBody(r.bus, r.message, r.woke)
    /\ UNCHANGED <<project_idea, is_running, artifacts, nsent, nstarts>>

\* Orchestrator._broadcast_state_change: the oldest task made by create_task
\* runs from its start to its first suspension
BroadcastStateChange ==
    /\ bc_tasks # <<>>
    /\ LET c == Head(bc_tasks)
           t == c.name
           message == Message(0, "orchestrator", "broadcast", STATE_CHANGE,
                          [old_state |-> c.old, new_state |-> c.new,
                           progress |-> get_progress_percentage(current_state)],
                          FALSE)
       IN \E r \in broadcast(Bus, t, message, "none") :
            /\ SetBus(r.bus)
            /\ tasks' = IF r.wait.st = "idle" THEN tasks ELSE tasks @@ (t :> r.wait)
            /\ last' = [op |-> "broadcast_state_change", who |-> t,
                        msg |-> message, returned |-> r.wait.st = "idle"]
    /\ bc_tasks' = Tail(bc_tasks)
    /\ UNCHANGED <<smVars, orchVars, loops, extVars, nsent, nstarts>>

\* ------------------------------------------------------------------------
\* The orchestrator with its bus and the workers
\* ------------------------------------------------------------------------
\* the workers whose loop (BaseAgent.start) is scheduled in the behaviours explored
ActiveWorkers == {"analyst"}

Ideas == {"todo api", "chat app"}
FirstIdea == "todo api"

\* what ArtifactStore.exists finds on disk when the program starts
StoreInits ==
    {{}, {"user_stories.yaml", "openapi.yaml", "decisions.md"}}

InitOrch ==
    /\ Constructed(IDEA)
    /\ artifacts \in StoreInits
    /\ adrs = <<>>

\* the worker that owns the current phase, "frontend" when the orchestrator does
Owner == IF get_responsible_agent(current_state) = "orchestrator"
         THEN "frontend" ELSE get_responsible_agent(current_state)

\* create_deliverable_message(summary, artifacts, additional_data)
DeliverableMessage(w, artifacts_, extra) ==
    Message(0, w, "orchestrator", DELIVERABLE,
            [summary |-> "done", artifacts |-> artifacts_] @@ extra, FALSE)

\* the deliverable with which the phase's owner answers its task: it names all
\* required deliverables (agents/analyst.py and the other agents)
OnTrack ==
    IF get_responsible_agent(current_state) = "orchestrator"
       \/ current_agent # Owner
       \/ get_queue_size(Bus, "orchestrator") # 0
    THEN {}
    ELSE IF current_state = REVIEW
    THEN {DeliverableMessage(Owner, get_required_deliverables(current_state),
                             [decision |-> d]) : d \in {"GO", "CONDITIONAL GO"}}
    ELSE {DeliverableMessage(Owner, get_required_deliverables(current_state), <<>>)}

\* BaseAgent.request_clarification(to_agent, question, context)
ClarificationMessage(w, to) ==
    Message(0, w, to, CLARIFICATION,
            [question |-> "q", context |-> "c", options |-> <<>>], TRUE)

\* BaseAgent._send_error(error_msg, error_type, context)
ErrorMessage(w) ==
    Message(0, w, "orchestrator", ERROR,
            [error_type |-> "execution_error", message |-> "e", context |-> <<>>],
            FALSE)

\* BaseAgent.send_status(status, details)
StatusMessage(w) ==
    Message(0, w, "orchestrator", STATUS, [status |-> "working"], FALSE)

\* the review deliverables of agents/cto_reviewer.py that do not say GO, and
\* one that says GO without naming the review document
ReviewOffTrack ==
    LET req == get_required_deliverables(REVIEW)
    IN {DeliverableMessage(Owner, req, [decision |-> "NO-GO", score |-> 95]),
        DeliverableMessage(Owner, req, <<>>),
        DeliverableMessage(Owner, <<>>, [decision |-> "GO", score |-> 95])}

\* the phases in which the workers report errors and status
ReportPhases == {ANALYSIS, TESTING}

\* the other messages a worker may send (BaseAgent.submit_deliverable with
\* part of the deliverables, request_clarification, _send_error, send_status)
OffTrack ==
    LET req == get_required_deliverables(current_state)
    IN {ClarificationMessage(Owner, "orchestrator")}
       \cup (IF current_state \in ReportPhases
             THEN {ErrorMessage(Owner), StatusMessage(Owner)} ELSE {})
       \cup (IF Len(req) >= 2
             THEN {DeliverableMessage(Owner, <<Head(req)>>, <<>>),
                   DeliverableMessage(Owner, Tail(req), <<>>)}
             ELSE IF current_state = REVIEW THEN ReviewOffTrack
             ELSE IF current_state = IDEA THEN {}
             ELSE {DeliverableMessage(Owner, <<>>, <<>>)})

\* a deliverable sent before any project is started
Early == DeliverableMessage("frontend", <<>>, <<>>)

\* a worker sends a message to the orchestrator
WorkerSend(message, cost) ==
    /\ tasks[message.from_agent].st = "idle"
    /\ nsent + cost <= MaxOff
    /\ nsent' = nsent + cost
    /\ LET r == send_direct(Bus, message.from_agent, message, "none")
       IN /\ SetBus(r.bus)
          /\ tasks' = [tasks EXCEPT ![message.from_agent] = r.wait]
          /\ last' = [op |-> "send", who |-> message.from_agent, msg |-> message,
                      wasfull |-> ~(r.wait.st = "idle"),
                      returned |-> r.wait.st = "idle", raised |-> r.raised]
    /\ UNCHANGED <<smVars, bc_tasks, orchVars, loops, extVars, nstarts>>

\* f"ADR-{num:03d}"
AdrId(num) ==
    "ADR-" \o (IF num < 10 THEN "00" ELSE IF num < 100 THEN "0" ELSE "")
           \o ToString(num)

\* the characters int() reads as decimal digits, and their values
IsDigit(c) == \E n \in 0..9 : ToString(n) = c

DigitValue(c) == CHOOSE n \in 0..9 : ToString(n) = c

\* adr.id.split('-')[1]: the text between the first '-' and the next one;
\* None stands for IndexError (no '-' in the id)
SecondField(id) ==
    LET dashes == {i \in 1..Len(id) : SubSeq(id, i, i) = "-"}
    IN IF dashes = {} THEN None
       ELSE LET d1 == CHOOSE i \in dashes : \A j \in dashes : i <= j
                later == {i \in dashes : i > d1}
                d2 == IF later = {} THEN Len(id) + 1
                      ELSE CHOOSE i \in later : \A j \in later : i <= j
            IN SubSeq(id, d1 + 1, d2 - 1)

\* int(text) for a text of decimal digits
RECURSIVE IntOf(_)
IntOf(text) ==
    IF text = "" THEN 0
    ELSE 10 * IntOf(SubSeq(text, 1, Len(text) - 1))
            + DigitValue(SubSeq(text, Len(text), Len(text)))

\* int(adr.id.split('-')[1]); -1 stands for IndexError and ValueError, on
\* which get_next_id skips the record
IdNumber(id) ==
    LET text == SecondField(id)
    IN IF text = None THEN -1
       ELSE IF text = "" \/ \E i \in 1..Len(text) : ~IsDigit(SubSeq(text, i, i))
       THEN -1
       ELSE IntOf(text)

get_next_id_by_count == AdrId(Cardinality(DOMAIN adrs) + 1)

\* ADRManager.get_next_id: one more than the largest number among the ids
get_next_id ==
    LET numbers == {IdNumber(id) : id \in DOMAIN adrs} \ {-1}
    IN IF numbers = {} THEN AdrId(1)
       ELSE AdrId((CHOOSE num \in numbers : \A k \in numbers : k <= num) + 1)

\* the architect saves a proposed ADR while it works on its task
ProposeAdr ==
    /\ current_state = ARCHITECTURE
    /\ Cardinality(DOMAIN adrs) < MaxAdrs
    /\ adrs' = adrs @@ (get_next_id :> "proposed")
    /\ last' = [op |-> "propose_adr", who |-> "architect"]
    /\ UNCHANGED <<smVars, busVars, tasks, bc_tasks, orchVars, loops, artifacts,
                   nsent, nstarts>>

\* the event loop has no callback ready to run: no task made by create_task is
\* waiting for its first run, no coroutine has been woken, and the
\* orchestrator's loop has nothing to receive
Quiet ==
    /\ bc_tasks = <<>>
    /\ \A t \in DOMAIN tasks : tasks[t].st # "woken"
    /\ ~(/\ tasks["orchestrator"].st = "idle"
          /\ "orchestrator" \in loops
          /\ get_queue_size(Bus, "orchestrator") > 0)

\* The workers and the entry point act on the completion of I/O (the answer of
\* the language model, asyncio.sleep), which the loop polls once its ready
\* callbacks have run.  As in main.py the loops are started before the one
\* call of start_project.
NextOrch ==
    \/ Quiet /\ nstarts = 0 /\ StartProject(FirstIdea)
    \/ Quiet /\ nstarts = 0 /\ OrchRun
    \/ OrchReceive
    \/ BroadcastStateChange
    \/ \E t \in DOMAIN tasks : TaskResume(t)
    \/ Quiet /\ \E m \in OnTrack : WorkerSend(m, 0)
    \/ Quiet /\ \E m \in OffTrack : WorkerSend(m, 1)
    \/ Quiet /\ current_state = IDEA /\ WorkerSend(Early, MaxOff)
    \/ Quiet /\ nstarts = 0 /\ \E w \in ActiveWorkers : BusListen(w)
    \/ Quiet /\ \E w \in ActiveWorkers : BusReceive(w)
    \/ Quiet /\ ProposeAdr

SpecOrch == InitOrch /\ [][NextOrch]_vars

\* ------------------------------------------------------------------------
\* start_project called again and again, the analysis phase only
\* ------------------------------------------------------------------------
InitStart ==
    /\ Constructed(IDEA)
    /\ artifacts = {}
    /\ adrs = <<>>

\* what the analyst and the other workers send while the project is started
StartMessages ==
    {m \in OnTrack : m.from_agent = "analyst"}
        \cup {ClarificationMessage("architect", "orchestrator")}

NextStart ==
    \/ Quiet /\ nstarts < MaxStarts /\ \E idea \in Ideas : StartProject(idea)
    \/ Quiet /\ OrchRun
    \/ OrchReceive
    \/ BroadcastStateChange
    \/ \E t \in DOMAIN tasks : TaskResume(t)
    \/ Quiet /\ \E m \in StartMessages : WorkerSend(m, 1)
    \/ Quiet /\ \E w \in ActiveWorkers : BusListen(w)
    \/ Quiet /\ \E w \in ActiveWorkers : BusReceive(w)

SpecStart == InitStart /\ [][NextStart]_vars

\* ------------------------------------------------------------------------
\* the loops are stopped and cancelled while the project is started
\* ------------------------------------------------------------------------
\* Orchestrator.stop
OrchStop ==
    /\ is_running
    /\ is_running' = FALSE
    /\ last' = [op |-> "stop", who |-> "orchestrator"]
    /\ UNCHANGED <<smVars, busVars, tasks, bc_tasks, project_idea,
                   deliverables_received, blockers, current_agent, loops,
                   extVars, nsent, nstarts>>

\* asyncio.Queue.put on CancelledError: the putter leaves _putters
RemovePutter(q, t) ==
    [q EXCEPT !.putters = SelectSeq(@, LAMBDA x : x # t)]

\* orchestrator_task.cancel() (main.py) while the loop of run is suspended.
\* Waiting in receive, CancelledError is raised inside listen, which discards
\* the subscriber; waiting in the send of a handler, it is raised in the body
\* of the async for and listen, suspended at its yield, does not see it.
OrchCancel ==
    /\ "orchestrator" \in loops
    /\ tasks["orchestrator"].st \in {"idle", "put"}
    /\ IF tasks["orchestrator"].st = "idle"
       THEN /\ subscribers' = subscribers \ {"orchestrator"}
            /\ queues' = queues
            /\ last' = [op |-> "cancel", who |-> "orchestrator", at |-> "receive"]
       ELSE /\ subscribers' = subscribers
            /\ queues' = [queues EXCEPT ![tasks["orchestrator"].q] =
                              RemovePutter(@, "orchestrator")]
            /\ last' = [op |-> "cancel", who |-> "orchestrator", at |-> "handler"]
    /\ loops' = loops \ {"orchestrator"}
    /\ tasks' = [tasks EXCEPT !["orchestrator"] = Done]
    /\ UNCHANGED <<smVars, history, stats, bc_tasks, orchVars, extVars,
                   nsent, nstarts>>

\* the agents whose loops main.py starts, among those the project reaches
StopListeners == {"analyst", "architect"}

NextStop ==
    \/ Quiet /\ nstarts < MaxStarts /\ StartProject(FirstIdea)
    \/ Quiet /\ OrchRun
    \/ OrchReceive
    \/ BroadcastStateChange
    \/ \E t \in DOMAIN tasks : TaskResume(t)
    \/ Quiet /\ \E m \in StartMessages : WorkerSend(m, 1)
    \/ Quiet /\ \E w \in StopListeners : BusListen(w)
    \/ Quiet /\ \E w \in ActiveWorkers : BusReceive(w)
    \/ Quiet /\ OrchStop
    \/ Quiet /\ OrchCancel
    \/ Quiet /\ \E w \in StopListeners : BusCancel(w)

SpecStop == InitStart /\ [][NextStop]_vars

\* ------------------------------------------------------------------------
\* agents/base.py and agents/analyst.py: the analyst's loop executes its tasks
\* ------------------------------------------------------------------------
\* send by agent w inside execute_task; pc is where w is once send has returned
AgentSend(b, w, message, pc) ==
    LET r == send_direct(b, w, message, pc)
    IN [bus |-> r.bus,
        wait |-> IF r.wait.st = "idle" THEN AfterSend(pc) ELSE r.wait]

ExecuteTaskFailedSilently(b, w) == [bus |-> b, wait |-> Idle]

\* the except branch of AnalystAgent.execute_task: _send_error(str(e),
\* "analysis_error"), after which _handle_message returns to the loop
ExecuteTaskFailed(b, w) ==
    AgentSend(b, w, [ErrorMessage(w) EXCEPT !.content.error_type = "analysis_error"],
              "none")

\* the loop of BaseAgent.start receives a message and handles it up to the
\* first suspension: a Task starts execute_task, which sends a status and
\* awaits the language model; any other message is logged
AgentReceive(w) ==
    /\ tasks[w].st = "idle"
    /\ w \in loops
    /\ w \in DOMAIN queues
    /\ queues[w].items # <<>>
    /\ LET r == receive(Bus, w)
           s == IF r.message.type = TASK
                THEN AgentSend(r.bus, w, StatusMessage(w), "exec1")
                ELSE [bus |-> r.bus, wait |-> Idle]
       IN /\ SetBus(s.bus)
          /\ tasks' = [Wake(tasks, r.woke) EXCEPT ![w] = s.wait]
          /\ last' = [op |-> "agent_receive", who |-> w, msg |-> r.message]
    /\ UNCHANGED <<smVars, bc_tasks, orchVars, loops, extVars, nsent, nstarts>>

\* the language model answers: execute_task stores the artifact and goes on,
\* to the second status or to submit_deliverable
ExecSucceeds(w) ==
    /\ tasks[w].st = "exec"
    /\ LET first == tasks[w].step = 1
           s == IF first
                THEN AgentSend(Bus, w, StatusMessage(w), "exec2")
                ELSE AgentSend(Bus, w,
                         DeliverableMessage(w, <<"functional_spec.md", "user_stories.yaml">>,
                                            [phase |-> "analysis"]), "none")
       IN /\ artifacts' = artifacts \cup
                 {IF first THEN "functional_spec.md" ELSE "user_stories.yaml"}
          /\ SetBus(s.bus)
          /\ tasks' = [tasks EXCEPT ![w] = s.wait]
          /\ last' = [op |-> "exec_ok", who |-> w, step |-> tasks[w].step]
    /\ UNCHANGED <<smVars, bc_tasks, orchVars, loops, adrs, nsent, nstarts>>

\* the language model call raises: the except branch of execute_task
ExecFails(w) ==
    /\ tasks[w].st = "exec"
    /\ LET s == ExecuteTaskFailed(Bus, w)
       IN /\ SetBus(s.bus)
          /\ tasks' = [tasks EXCEPT ![w] = s.wait]
          /\ last' = [op |-> "exec_fail", who |-> w, step |-> tasks[w].step]
    /\ UNCHANGED <<smVars, bc_tasks, orchVars, loops, extVars, nsent, nstarts>>

\* the agent whose execute_task is followed step by step
Executing == "analyst"

NextWorker ==
    \/ Quiet /\ nstarts < MaxStarts /\ StartProject(FirstIdea)
    \/ Quiet /\ OrchRun
    \/ OrchReceive
    \/ BroadcastStateChange
    \/ \E t \in DOMAIN tasks : TaskResume(t)
    \/ Quiet /\ \E w \in StopListeners : BusListen(w)
    \/ Quiet /\ AgentReceive(Executing)
    \/ Quiet /\ ExecSucceeds(Executing)
    \/ Quiet /\ ExecFails(Executing)
    \/ Quiet /\ BusReceive("architect")

SpecWorker == InitStart /\ [][NextWorker]_vars

\* ------------------------------------------------------------------------
\* memory/adr_manager.py: the ADR directory on its own
\* ------------------------------------------------------------------------
ADRStatus == {"proposed", "accepted", "deprecated", "rejected"}

\* ids of the records found in the directory when the program starts: with
\* gaps, at the ends of the three-digit range, and not of the form ADR-NNN
IdPool == {"ADR-001", "ADR-7", "ADR-099", "ADR-999", "notes"}

InitAdr ==
    /\ Constructed(IDEA)
    /\ artifacts = {}
    /\ \E S \in SUBSET IdPool : adrs \in [S -> ADRStatus]

\* the ids get_next_id has returned so far
Created == IF "created" \in DOMAIN last THEN last.created ELSE <<>>

\* a new record: id = get_next_id(), then save(ADR(id=id, ...)), as in
\* ArchitectAgent._save_individual_adrs
AdrCreate ==
    /\ Len(Created) < MaxAdrs
    /\ adrs' = (get_next_id :> "proposed") @@ adrs
    /\ last' = [op |-> "create", id |-> get_next_id,
                created |-> Append(Created, get_next_id)]
    /\ UNCHANGED <<smVars, busVars, tasks, bc_tasks, orchVars, loops, artifacts,
                   nsent, nstarts>>

\* ADRManager.update_status(adr_id, new_status) on a record that exists
AdrUpdateStatus(adr_id, new_status) ==
    /\ adr_id \in DOMAIN adrs
    /\ adrs[adr_id] # new_status
    /\ adrs' = [adrs EXCEPT ![adr_id] = new_status]
    /\ last' = [op |-> "update_status", id |-> adr_id, created |-> Created]
    /\ UNCHANGED <<smVars, busVars, tasks, bc_tasks, orchVars, loops, artifacts,
                   nsent, nstarts>>

NextAdr ==
    \/ AdrCreate
    \/ \E adr_id \in DOMAIN adrs : \E new_status \in ADRStatus :
         AdrUpdateStatus(adr_id, new_status)

SpecAdr == InitAdr /\ [][NextAdr]_vars

\* ------------------------------------------------------------------------
\* a whole project: every agent's loop runs, receives its task and submits
\* the deliverables of the task's phase
\* ------------------------------------------------------------------------
\* the agents main.py starts besides the orchestrator
Workers == Agents \ {"orchestrator"}

\* the loop of BaseAgent.start receives a message: a Task starts execute_task,
\* any other message is logged
LiveReceive(w) ==
    /\ tasks[w].st = "idle"
    /\ w \in loops
    /\ queues[w].items # <<>>
    /\ LET r == receive(Bus, w)
       IN /\ SetBus(r.bus)
          /\ tasks' = [Wake(tasks, r.woke) EXCEPT ![w] =
                          IF r.message.type = TASK
                          THEN [st |-> "exec", step |-> 1,
                                state |-> r.message.content.state]
                          ELSE Idle]
          /\ last' = [op |-> "agent_receive", who |-> w, msg |-> r.message]
    /\ UNCHANGED <<smVars, bc_tasks, orchVars, loops, extVars, nsent, nstarts>>

\* the decisions with which agents/cto_reviewer.py lets the project pass
Passing == {"GO", "CONDITIONAL GO"}

\* the deliverable of an agent for the phase of its task: it names all the
\* required deliverables of that phase, for Review with the CTO's decision
Submission(w, decision) ==
    DeliverableMessage(w, get_required_deliverables(tasks[w].state),
        IF tasks[w].state = REVIEW THEN [decision |-> decision] ELSE <<>>)

\* execute_task of agent w ends with submit_deliverable
LiveSubmit(w, decision, cost) ==
    /\ tasks[w].st = "exec"
    /\ nsent + cost <= MaxOff
    /\ nsent' = nsent + cost
    /\ LET message == Submission(w, decision)
           r == send_direct(Bus, w, message, "none")
       IN /\ SetBus(r.bus)
          /\ tasks' = [tasks EXCEPT ![w] = r.wait]
          /\ last' = [op |-> "submit", who |-> w, msg |-> message]
    /\ UNCHANGED <<smVars, bc_tasks, orchVars, loops, extVars, nstarts>>

\* no callback is ready to run: Quiet, and no agent's loop has a message to
\* receive
LiveQuiet ==
    /\ Quiet
    /\ \A w \in Workers \cap loops :
         tasks[w].st = "idle" => queues[w].items = <<>>

\* a task answered as its phase requires; in Review with a passing decision
SubmitsRequired ==
    LiveQuiet /\ \E w \in Workers : \E decision \in Passing :
        /\ tasks[w].st = "exec"
        /\ tasks[w].state # REVIEW => decision = "GO"
        /\ LiveSubmit(w, decision, 0)

\* the CTO sends the project back
SubmitsNoGo ==
    /\ LiveQuiet
    /\ tasks["cto"].st = "exec"
    /\ tasks["cto"].state = REVIEW
    /\ LiveSubmit("cto", "NO-GO", 1)

\* as in main.py every loop is started before start_project is called; every
\* agent receives as soon as it can, so no mailbox fills and no send waits
NextLive ==
    \/ Quiet /\ nstarts = 0 /\ loops = Agents /\ StartProject(FirstIdea)
    \/ nstarts = 0 /\ OrchRun
    \/ nstarts = 0 /\ \E w \in Workers : BusListen(w)
    \/ OrchReceive
    \/ BroadcastStateChange
    \/ \E w \in Workers : LiveReceive(w)
    \/ SubmitsRequired
    \/ SubmitsNoGo

\* the event loop runs every ready callback, every agent ends its task with
\* its deliverable, and the CTO's decision is passing again and again
FairLive ==
    /\ WF_vars(OrchReceive)
    /\ WF_vars(BroadcastStateChange)
    /\ WF_vars(\E w \in Workers : LiveReceive(w))
    /\ SF_vars(SubmitsRequired)

SpecLive == InitStart /\ [][NextLive]_vars /\ FairLive

\* ------------------------------------------------------------------------
\* communication/schemas.py: the message classes and their constructors
\* ------------------------------------------------------------------------
required_none(type) == {}

\* the list `required` in the __init__ of the class of each message type;
\* StatusMessage has no __init__ of its own
required(type) ==
    CASE type = TASK -> {"description"}
      [] type = DELIVERABLE -> {"summary", "artifacts"}
      [] type = CLARIFICATION -> {"question", "context"}
      [] type = ERROR -> {"error_type", "message"}
      [] type = STATE_CHANGE -> {"old_state", "new_state"}
      [] OTHER -> {}

\* TaskMessage(...), DeliverableMessage(...) and the other classes: the
\* message, or ValueError when a required key is not in content
Construct(type, id, from, to, content) ==
    IF \E field \in required(type) : field \notin DOMAIN content
    THEN [raised |-> "ValueError", message |-> None]
    ELSE [raised |-> None, message |-> Message(id, from, to, type, content, FALSE)]

\* the message types that have a class, and the keys a caller may pass
MessageClasses == {TASK, DELIVERABLE, CLARIFICATION, STATUS, ERROR, STATE_CHANGE}

ContentKeys(type) == required(type) \cup {"phase"}

\* an agent constructs a message of a class with the given content keys and,
\* when the constructor returns, sends it
ConstructAndSend(c, type, keys) ==
    /\ tasks[c].st = "idle"
    /\ nsent < MaxMsgs
    /\ nsent' = nsent + 1
    /\ LET to == IF type = STATE_CHANGE THEN "broadcast" ELSE "orchestrator"
           m == Construct(type, nsent + 1, c, to, [k \in keys |-> "v"])
       IN IF m.raised # None
          THEN /\ last' = [op |-> "construct", who |-> c, type |-> type,
                           keys |-> keys, raised |-> m.raised, returned |-> FALSE]
               /\ UNCHANGED <<busVars, tasks>>
          ELSE \E r \in send(Bus, c, m.message, "none") :
                 /\ SetBus(r.bus)
                 /\ tasks' = [tasks EXCEPT ![c] = r.wait]
                 /\ last' = [op |-> "construct", who |-> c, type |-> type,
                             keys |-> keys, raised |-> None,
                             returned |-> r.wait.st = "idle"]
    /\ UNCHANGED <<smVars, bc_tasks, orchVars, loops, extVars, nstarts>>

NextMsg ==
    \/ \E type \in MessageClasses : \E keys \in SUBSET ContentKeys(type) :
         ConstructAndSend("analyst", type, keys)
    \/ BusListen("architect")
    \/ BusReceive("orchestrator")
    \/ \E t \in DOMAIN tasks : TaskResume(t)

SpecMsg == InitBus /\ [][NextMsg]_vars

\* ------------------------------------------------------------------------
\* Properties of the state machine (SpecSM)
\* ------------------------------------------------------------------------
\* the transition table's set for phase P
TableSet(P) == Range(TRANSITIONS[P])

\* C1: for every current phase P and every target T, can_transition_to(T)
\* returns true if and only if T is in the transition table's set for P.
C1_CanTransitionIffInTable ==
    last.op = "can_transition_to" =>
        (last.ret <=> last.arg \in TableSet(current_state))

C1_Witness ==
    /\ last.op = "can_transition_to"
    /\ current_state = REVIEW
    /\ last.arg = IMPLEMENTATION
    /\ last.ret

\* C2: transition_to(T) with T not reachable in one step returns false and
\* leaves the current phase and the history unchanged; with T reachable it
\* returns true, sets the current phase to T and appends exactly T.
C2_TransitionTo ==
    [][last'.op = "transition_to" =>
        IF last'.arg \in TableSet(current_state)
        THEN /\ last'.ret = TRUE
             /\ current_state' = last'.arg
             /\ state_history' = Append(state_history, last'.arg)
        ELSE /\ last'.ret = FALSE
             /\ current_state' = current_state
             /\ state_history' = state_history]_vars

C2_Witness ==
    /\ last.op = "transition_to"
    /\ last.ret = FALSE
    /\ last.arg = DELIVERY
    /\ current_state = TESTING
    /\ Len(state_history) > 1

\* ------------------------------------------------------------------------
\* Properties of the bus (SpecBus)
\* ------------------------------------------------------------------------
Items(qs, a) == IF a \in DOMAIN qs THEN qs[a].items ELSE <<>>

\* C3: a mailbox changes only by a completed send that appends at its tail and
\* by a receive that removes its head and returns it, so receive returns the
\* messages of a mailbox in the order their sends completed, none dropped,
\* duplicated or reordered, whatever happens on the other mailboxes.
C3_Fifo ==
    [][\A a \in DOMAIN queues' :
        LET old == Items(queues, a)
            new == Items(queues', a)
        IN \/ new = old
           \/ /\ Len(new) = Len(old) + 1
              /\ SubSeq(new, 1, Len(old)) = old
              /\ new[Len(new)].id \notin {old[i].id : i \in DOMAIN old}
           \/ /\ old # <<>>
              /\ new = Tail(old)
              /\ last'.op = "receive"
              /\ last'.who = a
              /\ last'.msg = Head(old)]_vars

\* architect has received a message while a younger message of another
\* sender waits behind it
C3_Witness ==
    /\ last.op = "receive"
    /\ last.who = "architect"
    /\ Items(queues, "architect") # <<>>
    /\ Head(Items(queues, "architect")).id > last.msg.id
    /\ Head(Items(queues, "architect")).from_agent # last.msg.from_agent

\* a coroutine suspended in queue.put, or woken there and not yet run
InPut(t) == t \in DOMAIN tasks /\ tasks[t].st \in {"put", "woken"}

\* C4: a send to a mailbox that holds max_queue_size messages fails at once
\* with QueueFull raised to the sender, and send never suspends the sender.
C4_SendFailsWhenFull ==
    /\ \A t \in DOMAIN tasks : ~(InPut(t) /\ tasks[t].kind = "send")
    /\ (last.op = "send" /\ last.wasfull) => last.raised = "QueueFull"

\* C5: a send that finds the mailbox at capacity leaves the mailbox as it
\* was, and its message never appears in a mailbox or in the history later.
C5_RejectedLeavesNoTrace ==
    [][/\ (last'.op = "send" /\ last'.wasfull /\ last'.msg.to_agent \in DOMAIN queues)
            => Items(queues', last'.msg.to_agent) = Items(queues, last'.msg.to_agent)
       /\ \A t \in DOMAIN tasks :
            (InPut(t) /\ tasks[t].kind = "send") =>
                /\ \A a \in DOMAIN queues' : ~InList(tasks[t].msg, queues'[a].items)
                /\ ~InList(tasks[t].msg, history')]_vars

\* C6: a broadcast never enqueues its message into the mailbox of its own
\* sender, whether or not the sender is a subscriber.
C6_NoBroadcastToSender ==
    \A a \in DOMAIN queues : \A i \in DOMAIN queues[a].items :
        queues[a].items[i].to_agent = "broadcast" =>
            queues[a].items[i].from_agent # a

\* the orchestrator, itself a subscriber, has broadcast to another subscriber
C6_Witness ==
    /\ last.op = "send"
    /\ last.who = "orchestrator"
    /\ last.msg.to_agent = "broadcast"
    /\ "orchestrator" \in subscribers
    /\ \E a \in subscribers \ {"orchestrator"} :
         \E i \in DOMAIN queues[a].items : queues[a].items[i].id = last.msg.id

\* C7: a broadcast that meets a subscriber whose mailbox is at capacity skips
\* it without blocking and has enqueued the message into the mailbox of every
\* other subscriber (the sender excepted) when it returns.
C7_BroadcastSkipsFull ==
    /\ \A t \in DOMAIN tasks : ~(InPut(t) /\ tasks[t].kind = "bcast")
    /\ (last.op = "send"
        /\ (last.msg.to_agent = "broadcast" \/ last.msg.type = BROADCAST)) =>
          /\ last.returned
          /\ \A a \in subscribers \ {last.msg.from_agent} :
                \/ Len(queues[a].items) = max_queue_size
                \/ \E i \in DOMAIN queues[a].items :
                      queues[a].items[i].id = last.msg.id

\* ------------------------------------------------------------------------
\* Properties of the orchestrator (SpecOrch, SpecStart)
\* ------------------------------------------------------------------------
\* the step is the orchestrator's handling of a Deliverable message
HandlesDeliverable ==
    /\ last'.op = "handle"
    /\ last'.msg.type = DELIVERABLE

\* the names recorded for the current phase once the handled message's
\* artifacts are added
RecordedNames ==
    (IF current_state \in DOMAIN deliverables_received
     THEN Range(deliverables_received[current_state]) ELSE {})
        \cup Range(Get(last'.msg.content, "artifacts", <<>>))

\* the deliverables required by the current phase that are neither recorded
\* nor in the registry
StillMissing ==
    IF current_state \in DOMAIN REQUIRED_DELIVERABLES
    THEN {r \in Range(REQUIRED_DELIVERABLES[current_state]) :
              r \notin RecordedNames /\ r \notin artifacts}
    ELSE {}

\* C8: the handling of a Deliverable message leaves the phase and its history
\* as they are when a deliverable required by the current phase is neither
\* among the names recorded for the phase nor in the deliverable registry.
C8_IncompleteNeverAdvances ==
    [][(HandlesDeliverable /\ StillMissing # {})
         => /\ current_state' = current_state
            /\ state_history' = state_history]_vars

\* a part of the design deliverables was handled and the phase has stayed
C8_Witness ==
    /\ last.op = "handle"
    /\ last.msg.type = DELIVERABLE
    /\ last.msg.content.artifacts = <<"design_system.md">>
    /\ current_state = DESIGN
    /\ DESIGN \in DOMAIN deliverables_received
    /\ deliverables_received[DESIGN] = <<"design_system.md">>
    /\ "wireframes.md" \notin artifacts
    /\ state_history[Len(state_history)] = DESIGN

\* the phase that follows each phase on the way from the idea to completion
NextPhase ==
    (IDEA :> ANALYSIS) @@ (ANALYSIS :> ARCHITECTURE) @@ (ARCHITECTURE :> DESIGN)
        @@ (DESIGN :> IMPLEMENTATION) @@ (IMPLEMENTATION :> TESTING)
        @@ (TESTING :> REVIEW) @@ (REVIEW :> DELIVERY)

\* C9: in a phase other than Review and the terminal ones, the handling of a
\* Deliverable message with which nothing required by the phase is missing any
\* more (names of earlier messages of the phase counted) moves the phase to the
\* next one in that very step and adds exactly that one phase to the history.
C9_CompleteAdvancesOnce ==
    [][(/\ HandlesDeliverable
        /\ current_state \notin {REVIEW, DELIVERY, FAILED}
        /\ StillMissing = {})
         => /\ current_state' = NextPhase[current_state]
            /\ state_history' = Append(state_history, NextPhase[current_state])]_vars

\* the design deliverables came in two messages, and the second one moved the
\* phase from Design to Implementation
C9_Witness ==
    /\ last.op = "handle"
    /\ last.msg.type = DELIVERABLE
    /\ last.msg.content.artifacts = <<"wireframes.md">>
    /\ artifacts = {}
    /\ DESIGN \in DOMAIN deliverables_received
    /\ deliverables_received[DESIGN] = <<"design_system.md", "wireframes.md">>
    /\ current_state = IMPLEMENTATION
    /\ Len(state_history) >= 2
    /\ state_history[Len(state_history) - 1] = DESIGN
    /\ state_history[Len(state_history)] = IMPLEMENTATION

\* the step in which a call of start_project returns
StartProjectReturns ==
    /\ last'.op \in {"start_project", "resume"}
    /\ last'.who = "main"
    /\ last'.returned

\* C10: when start_project(idea) returns, the phase is Analysis, no deliverable
\* and no blocker is tracked, and the call has put one Task message holding the
\* idea at the tail of the mailbox of the analysis phase's agent.
C10_StartProjectResets ==
    [][StartProjectReturns
         => /\ current_state' = ANALYSIS
            /\ deliverables_received' = <<>>
            /\ blockers' = <<>>
            /\ \E task \in Range(queues'[STATE_AGENT_MAP[ANALYSIS]].items) :
                 /\ task.type = TASK
                 /\ task.content.project_idea = project_idea'
                 /\ queues'[STATE_AGENT_MAP[ANALYSIS]].items
                      = Append(Items(queues, STATE_AGENT_MAP[ANALYSIS]), task)]_vars

\* the step calls send once, with a Task for the agent `to`: the Task is put
\* at the tail of that agent's mailbox, or the mailbox is full and the
\* orchestrator waits in send with it; no other mailbox gains a message
SendsOneTask(to) ==
    /\ last'.assigned
    /\ last'.task.type = TASK
    /\ last'.task.from_agent = "orchestrator"
    /\ last'.task.to_agent = to
    /\ \A a \in DOMAIN queues' \ {"orchestrator", to} :
         Items(queues', a) = Items(queues, a)
    /\ Items(queues', "orchestrator") = Tail(Items(queues, "orchestrator"))
    /\ IF last'.returned
       THEN /\ Items(queues', to) = Append(Items(queues, to), last'.task)
            /\ tasks'["orchestrator"].st = "idle"
       ELSE /\ Items(queues', to) = Items(queues, to)
            /\ Len(Items(queues, to)) >= max_queue_size
            /\ tasks'["orchestrator"].st = "put"
            /\ tasks'["orchestrator"].msg = last'.task

\* C11: when the handled Deliverable leaves nothing missing in a phase from
\* Idea to Testing, the orchestrator moves to the next phase and sends exactly
\* one Task, to the agent responsible for that next phase.
C11_AdvanceAssignsNextAgent ==
    [][(/\ HandlesDeliverable
        /\ current_state \in DOMAIN NextPhase \ {REVIEW}
        /\ StillMissing = {})
         => /\ current_state' = NextPhase[current_state]
            /\ SendsOneTask(STATE_AGENT_MAP[NextPhase[current_state]])]_vars

\* the analysis deliverable with both documents was handled: the phase is
\* Architecture and the architect's mailbox ends with the architecture Task
C11_Witness ==
    /\ last.op = "handle"
    /\ last.msg.type = DELIVERABLE
    /\ last.msg.content.artifacts = <<"functional_spec.md", "user_stories.yaml">>
    /\ artifacts = {}
    /\ current_state = ARCHITECTURE
    /\ current_agent = "architect"
    /\ Items(queues, "architect") # <<>>
    /\ Items(queues, "architect")[Len(Items(queues, "architect"))].type = TASK
    /\ Items(queues, "architect")[Len(Items(queues, "architect"))].content.state
         = ARCHITECTURE

\* the decision field of the handled message, "" when it has none
HandledDecision == Get(last'.msg.content, "decision", "")

\* C12: in Review, a handled Deliverable that leaves nothing missing and whose
\* decision is neither "GO" nor "CONDITIONAL GO" (it may be absent) moves the
\* phase back to Implementation and sends one new Task to the agent
\* responsible for Implementation, whatever the score.
C12_NoGoReturnsToImplementation ==
    [][(/\ HandlesDeliverable
        /\ current_state = REVIEW
        /\ StillMissing = {}
        /\ HandledDecision \notin {"GO", "CONDITIONAL GO"})
         => /\ current_state' = IMPLEMENTATION
            /\ state_history' = Append(state_history, IMPLEMENTATION)
            /\ SendsOneTask(STATE_AGENT_MAP[IMPLEMENTATION])]_vars

\* a review with decision NO-GO and a high score was handled: the phase went
\* from Review to Implementation and the backend has its second Task
C12_Witness ==
    /\ last.op = "handle"
    /\ last.msg.type = DELIVERABLE
    /\ "decision" \in DOMAIN last.msg.content
    /\ last.msg.content.decision = "NO-GO"
    /\ last.msg.content.score >= 90
    /\ current_state = IMPLEMENTATION
    /\ Len(state_history) >= 2
    /\ state_history[Len(state_history) - 1] = REVIEW
    /\ last.returned
    /\ Len(Items(queues, "backend")) = 2
    /\ \A i \in DOMAIN Items(queues, "backend") : Items(queues, "backend")[i].type = TASK

\* C13: in Review, a handled Deliverable that leaves nothing missing and whose
\* decision is "GO" or "CONDITIONAL GO" moves the phase to Delivery, and no
\* other step moves the phase from Review to Delivery.
C13_GoAdvancesToDelivery ==
    [][/\ (/\ HandlesDeliverable
           /\ current_state = REVIEW
           /\ StillMissing = {}
           /\ HandledDecision \in {"GO", "CONDITIONAL GO"})
            => /\ current_state' = DELIVERY
               /\ state_history' = Append(state_history, DELIVERY)
       /\ (current_state = REVIEW /\ current_state' = DELIVERY)
            => /\ HandlesDeliverable
               /\ StillMissing = {}
               /\ HandledDecision \in {"GO", "CONDITIONAL GO"}]_vars

\* a review with decision CONDITIONAL GO was handled and the phase went from
\* Review to Delivery
C13_Witness ==
    /\ last.op = "handle"
    /\ last.msg.type = DELIVERABLE
    /\ "decision" \in DOMAIN last.msg.content
    /\ last.msg.content.decision = "CONDITIONAL GO"
    /\ last.msg.content.artifacts = REQUIRED_DELIVERABLES[REVIEW]
    /\ current_state = DELIVERY
    /\ Len(state_history) >= 2
    /\ state_history[Len(state_history) - 1] = REVIEW

\* the handling step sends nothing: the orchestrator's mailbox loses the
\* handled message, no mailbox gains one, no broadcast is scheduled and no
\* send is called
SendsNothing ==
    /\ ~last'.assigned
    /\ bc_tasks' = bc_tasks
    /\ tasks'["orchestrator"].st = "idle"
    /\ Items(queues', "orchestrator") = Tail(Items(queues, "orchestrator"))
    /\ \A a \in DOMAIN queues' \ {"orchestrator"} :
         Items(queues', a) = Items(queues, a)

\* C14: the handling of a Clarification or of an Error message appends exactly
\* one blocker record, of the message's kind and sender, and changes neither
\* the phase nor its history nor the assigned agent, and sends no message.
C14_BlockerPerMessage ==
    [][(last'.op = "handle" /\ last'.msg.type \in {CLARIFICATION, ERROR})
         => /\ Len(blockers') = Len(blockers) + 1
            /\ SubSeq(blockers', 1, Len(blockers)) = blockers
            /\ blockers'[Len(blockers')].type = last'.msg.type
            /\ blockers'[Len(blockers')].from = last'.msg.from_agent
            /\ current_state' = current_state
            /\ state_history' = state_history
            /\ current_agent' = current_agent
            /\ deliverables_received' = deliverables_received
            /\ SendsNothing]_vars

\* a Clarification and an Error were handled in Testing: two blockers, and
\* the phase is still Testing
C14_Witness ==
    /\ last.op = "handle"
    /\ last.msg.type = ERROR
    /\ current_state = TESTING
    /\ state_history[Len(state_history)] = TESTING
    /\ Len(blockers) = 2
    /\ blockers[1].type = CLARIFICATION
    /\ blockers[1].from = "qa"
    /\ blockers[2].type = ERROR

\* C15: the handling of a Status message, or of a message of any kind other
\* than Deliverable, Clarification and Error, leaves the phase, its history,
\* the deliverable tracking, the blockers and the assigned agent as they are
\* and sends no message.
C15_StatusHasNoEffect ==
    [][(/\ last'.op = "handle"
        /\ last'.msg.type \notin {DELIVERABLE, CLARIFICATION, ERROR})
         => /\ current_state' = current_state
            /\ state_history' = state_history
            /\ deliverables_received' = deliverables_received
            /\ blockers' = blockers
            /\ current_agent' = current_agent
            /\ SendsNothing]_vars

\* a Status message of the tester was handled in Testing
C15_Witness ==
    /\ last.op = "handle"
    /\ last.msg.type = STATUS
    /\ last.msg.from_agent = "qa"
    /\ current_state = TESTING
    /\ current_agent = "qa"
    /\ blockers = <<>>

\* C16: when the handling of a Deliverable takes the phase from Architecture
\* to Design, every ADR that was proposed is accepted in that step, so none
\* is proposed when the Design task is assigned.
C16_ProposedAdrsAccepted ==
    [][(/\ HandlesDeliverable
        /\ current_state = ARCHITECTURE
        /\ current_state' = DESIGN)
         => /\ DOMAIN adrs' = DOMAIN adrs
            /\ \A id \in DOMAIN adrs :
                 adrs'[id] = IF adrs[id] = "proposed" THEN "accepted" ELSE adrs[id]
            /\ \A id \in DOMAIN adrs' : adrs'[id] # "proposed"
            /\ last'.assigned]_vars

\* the architecture deliverable was handled with two proposed ADRs on disk:
\* the phase is Design and both are accepted
C16_Witness ==
    /\ last.op = "handle"
    /\ last.msg.type = DELIVERABLE
    /\ last.msg.from_agent = "architect"
    /\ current_state = DESIGN
    /\ state_history[Len(state_history)] = DESIGN
    /\ DOMAIN adrs = {"ADR-001", "ADR-002"}
    /\ \A id \in DOMAIN adrs : adrs[id] = "accepted"

\* ------------------------------------------------------------------------
\* Properties of the state machine's ends

\* C17: Delivery and Failed are terminal: from either, no call of
\* transition_to succeeds, and the phase and its history change only by reset.
C17_TerminalPhasesStay ==
    [][(current_state \in {DELIVERY, FAILED} /\ last'.op # "reset")
         => /\ is_terminal_state(current_state)
            /\ current_state' = current_state
            /\ state_history' = state_history
            /\ last'.op = "transition_to" => last'.ret = FALSE
            /\ last'.op = "can_transition_to" => last'.ret = FALSE]_vars

\* transition_to was called in Delivery and refused
C17_Witness ==
    /\ current_state = DELIVERY
    /\ last.op = "transition_to"
    /\ last.arg = IDEA
    /\ last.ret = FALSE

\* C18: from every phase that is not terminal, transition_to(FAILED) succeeds:
\* it returns True and the phase becomes Failed.
C18_FailedFromEveryPhase ==
    [][(/\ ~is_terminal_state(current_state)
        /\ last'.op = "transition_to"
        /\ last'.arg = FAILED)
         => /\ last'.ret = TRUE
            /\ current_state' = FAILED]_vars

\* ------------------------------------------------------------------------
\* Properties of stopping and cancelling

\* C19: a participant is a broadcast subscriber exactly while its listen loop
\* runs: subscribed when the loop starts, no longer subscribed once the loop
\* has ended by cancellation or by the consumer's break.
C19_SubscribedWhileListening ==
    \A a \in Agents : a \in subscribers <=> a \in loops

\* C20: every message removed from a participant's mailbox is handed to that
\* participant's handler (or to the caller of receive): none is dequeued and
\* dropped.
C20_NoDequeuedMessageDropped ==
    [][\A a \in DOMAIN queues :
          Len(Items(queues', a)) < Len(Items(queues, a))
            => /\ last'.op \in {"handle", "receive"}
               /\ last'.who = a
               /\ last'.msg = Head(Items(queues, a))]_vars

\* ------------------------------------------------------------------------
\* Properties of the agents' loops

\* the step sends the one Error message of agent w to the orchestrator: it is
\* put at the tail of the orchestrator's mailbox, or that mailbox is full and
\* w waits in send with it; w then is back in its loop
SendsOneError(w) ==
    LET before == Items(queues, "orchestrator")
        after == Items(queues', "orchestrator")
    IN /\ \A a \in DOMAIN queues' \ {"orchestrator"} : Items(queues', a) = Items(queues, a)
       /\ IF tasks'[w].st = "idle"
          THEN /\ Len(after) = Len(before) + 1
               /\ SubSeq(after, 1, Len(before)) = before
               /\ after[Len(after)].type = ERROR
               /\ after[Len(after)].from_agent = w
          ELSE /\ after = before
               /\ Len(before) >= max_queue_size
               /\ tasks'[w].st = "put"
               /\ tasks'[w].msg.type = ERROR
               /\ tasks'[w].msg.from_agent = w
               /\ tasks'[w].cont = "none"

\* an Error message enters the orchestrator's mailbox in this step
ErrorArrives ==
    LET before == Items(queues, "orchestrator")
        after == Items(queues', "orchestrator")
    IN /\ Len(after) > Len(before)
       /\ after[Len(after)].type = ERROR

\* C21: when the execution of a Task fails inside an agent, the agent sends
\* exactly one Error message to the orchestrator and is back in its loop; no
\* loop and no task ends, and an Error reaches the orchestrator only from a
\* failed execution.
C21_FailureBecomesOneError ==
    [][/\ last'.op = "exec_fail" => SendsOneError(last'.who)
       /\ loops \subseteq loops'
       /\ \A t \in DOMAIN tasks' : tasks'[t].st # "done"
       /\ is_running => is_running'
       /\ ErrorArrives
            => \/ last'.op = "exec_fail"
               \/ /\ last'.op = "resume"
                  /\ last'.who = Executing
                  /\ tasks[Executing].msg.type = ERROR]_vars

\* an execution has failed and its Error was sent, and the agent has since
\* received another Task and is executing it
C21_Witness ==
    /\ Get(stats.messages_by_type, ERROR, 0) >= 1
    /\ last.op = "agent_receive"
    /\ last.who = Executing
    /\ last.msg.type = TASK
    /\ tasks[Executing].st = "exec"
    /\ Executing \in loops
    /\ "orchestrator" \in loops
    /\ is_running

\* ------------------------------------------------------------------------
\* Properties of the ADR ids

\* ADR- followed by at least three decimal digits
WellFormedId(id) ==
    /\ Len(id) >= 7
    /\ SubSeq(id, 1, 4) = "ADR-"
    /\ \A i \in 5..Len(id) : IsDigit(SubSeq(id, i, i))

\* C22: the id a call of get_next_id returns has the form ADR-NNN with at
\* least three digits, is the id of no record in the directory, and its number
\* is larger than the number of every id returned and saved before, whatever
\* the statuses of the records and the gaps in their numbers.
C22_NextIdIncreasesAndIsNew ==
    [][last'.op = "create"
         => /\ WellFormedId(last'.id)
            /\ last'.id \notin DOMAIN adrs
            /\ \A id \in DOMAIN adrs : IdNumber(id) < IdNumber(last'.id)
            /\ \A i \in DOMAIN Created : IdNumber(Created[i]) < IdNumber(last'.id)
            /\ DOMAIN adrs' = DOMAIN adrs \cup {last'.id}
            /\ \A id \in DOMAIN adrs : adrs'[id] = adrs[id]]_vars

\* two ids were returned one after the other in a directory that holds
\* ADR-001 and ADR-099, rejected and deprecated, and nothing between them
C22_Witness ==
    /\ last.op = "create"
    /\ last.created = <<"ADR-100", "ADR-101">>
    /\ DOMAIN adrs = {"ADR-001", "ADR-099", "notes", "ADR-100", "ADR-101"}
    /\ adrs["ADR-001"] = "rejected"
    /\ adrs["ADR-099"] = "deprecated"

\* ------------------------------------------------------------------------
\* Progress of a project

\* C23: with every callback scheduled fairly, every assigned agent submitting
\* the required deliverables of its phase and the Review decision passing
\* again and again, a project started with start_project reaches Delivery.
C23_StartedProjectIsDelivered ==
    (nstarts > 0) ~> (current_state = DELIVERY)

\* the project was sent back from Review twice and is delivered
C23_Witness ==
    /\ nstarts = 1
    /\ current_state = DELIVERY
    /\ nsent = MaxOff
    /\ Cardinality({i \in DOMAIN state_history : state_history[i] = REVIEW}) = 3

\* ------------------------------------------------------------------------
\* Properties of the bus history

\* the message as the bus records it: broadcast addresses it to "broadcast"
Recorded(message) ==
    IF message.to_agent = "broadcast" \/ message.type = BROADCAST
    THEN [message EXCEPT !.to_agent = "broadcast"]
    ELSE message

\* a call of send or broadcast returns in this step
SendCompletes ==
    /\ last' # last
    /\ last'.op \in {"send", "resume"}
    /\ last'.returned

\* C24: the history never holds more than max_history messages; it changes
\* only when a send or a broadcast completes, by gaining that message at its
\* end, the oldest entry leaving when the history was full and the others
\* keeping their order.
C24_HistoryKeepsMostRecent ==
    /\ Len(history) <= max_history
    /\ [][/\ Len(history') <= max_history
          /\ history' # history => SendCompletes
          /\ SendCompletes
               => history' = IF Len(history) = max_history
                             THEN Append(Tail(history), Recorded(last'.msg))
                             ELSE Append(history, Recorded(last'.msg))]_vars

\* three sends have completed with max_history = 2: the history holds the
\* second and the third
C24_Witness ==
    /\ stats.total_messages = 3
    /\ Len(history) = max_history
    /\ history[1].id = 2
    /\ history[2].id = 3
    /\ last.op = "send"
    /\ Recorded(last.msg) = history[2]

\* ------------------------------------------------------------------------
\* Properties of reset

\* C25: reset, from any phase and any history, makes Idea the current phase
\* and leaves a history with no record of an earlier phase: the single entry
\* Idea, as in a newly constructed state machine.
C25_ResetForgetsEarlierPhases ==
    [][last'.op = "reset"
         => /\ current_state' = IDEA
            /\ state_history' = <<IDEA>>
            /\ \A s \in ProjectState \ {IDEA} : ~InList(s, state_history')]_vars

\* reset was called
C25_Witness ==
    /\ last.op = "reset"
    /\ current_state = IDEA
    /\ state_history = <<IDEA>>

\* ------------------------------------------------------------------------
\* Properties of the message classes

\* the keys the payload of each kind of message must have
Mandated(type) ==
    IF type = TASK THEN {"description"}
    ELSE IF type = DELIVERABLE THEN {"summary", "artifacts"}
    ELSE IF type = CLARIFICATION THEN {"question", "context"}
    ELSE IF type = ERROR THEN {"error_type", "message"}
    ELSE IF type = STATE_CHANGE THEN {"old_state", "new_state"}
    ELSE {}

Complete(message) == Mandated(message.type) \subseteq DOMAIN message.content

\* C26: constructing a Task, Deliverable, Clarification, Error or StateChange
\* message without one of its mandated keys raises, so every message in a
\* mailbox, in the history or waiting to be put has all the keys of its kind.
C26_IncompleteMessageNeverConstructed ==
    /\ (last.op = "construct" /\ ~(Mandated(last.type) \subseteq last.keys))
          => last.raised = "ValueError"
    /\ \A a \in DOMAIN queues : \A i \in DOMAIN queues[a].items :
         Complete(queues[a].items[i])
    /\ \A i \in DOMAIN history : Complete(history[i])
    /\ \A t \in DOMAIN tasks :
         tasks[t].st \in {"put", "woken"} => Complete(tasks[t].msg)

\* a Deliverable without the key artifacts was refused after a complete one
\* was constructed and sent
C26_Witness ==
    /\ last.op = "construct"
    /\ last.type = DELIVERABLE
    /\ last.keys = {"summary", "phase"}
    /\ last.raised = "ValueError"
    /\ Len(Items(queues, "orchestrator")) = 1
    /\ Items(queues, "orchestrator")[1].type = DELIVERABLE

\* ------------------------------------------------------------------------
\* Properties of the state change broadcasts

\* the call of start_project or the handling of a message puts a Task in a
\* mailbox in this step
EnqueuesTask ==
    /\ last' # last
    /\ last'.op \in {"start_project", "handle"}
    /\ last'.assigned
    /\ last'.returned

\* C27: when the orchestrator enqueues the Task of a new phase, the
\* StateChange broadcast of the change to that phase has already been put in
\* the subscribers' mailboxes: it is not still waiting to be run.
C27_StateChangeBeforeTask ==
    [][EnqueuesTask
         => \A i \in DOMAIN bc_tasks' :
              bc_tasks'[i].new # last'.task.content.state]_vars

\* ------------------------------------------------------------------------
\* the broadcasts of the transitions while the loops are cancelled
\* (main.py: run_project starts the loops, starts the project and, in its
\* finally block, cancels the tasks of the loops)
\* ------------------------------------------------------------------------
NextCast ==
    \/ Quiet /\ nstarts < MaxStarts /\ StartProject(FirstIdea)
    \/ Quiet /\ nstarts = 0 /\ OrchRun
    \/ OrchReceive
    \/ BroadcastStateChange
    \/ \E t \in DOMAIN tasks : TaskResume(t)
    \/ Quiet /\ \E m \in StartMessages : WorkerSend(m, 1)
    \/ Quiet /\ nstarts = 0 /\ \E w \in StopListeners : BusListen(w)
    \/ Quiet /\ \E w \in ActiveWorkers : BusReceive(w)
    \/ Quiet /\ OrchCancel
    \/ Quiet /\ \E w \in StopListeners : BusCancel(w)

\* the event loop runs every callback that is ready, and a loop that is
\* neither cancelled nor inside a handler goes back to receive
FairCast ==
    /\ WF_vars(OrchReceive)
    /\ WF_vars(BroadcastStateChange)
    /\ WF_vars(\E t \in DOMAIN tasks : TaskResume(t))
    /\ WF_vars(Quiet /\ \E w \in ActiveWorkers : BusReceive(w))

SpecCast == InitStart /\ [][NextCast]_vars /\ FairCast

\* the names of the broadcast tasks that SpecCast can create: a project goes
\* from idea to analysis and, on the analyst's deliverable, to architecture
CastNames ==
    {"bc" \o ToString(s) \o "." \o ToString(n) :
        s \in 0..MaxStarts, n \in 2..3}

\* the task of a transition has been created and has not run yet
Scheduled(n) == \E i \in DOMAIN bc_tasks : bc_tasks[i].name = n

\* EventBus.broadcast returned in task n: every subscriber has the message
Emitted(n) ==
    /\ last.op \in {"broadcast_state_change", "resume"}
    /\ last.who = n
    /\ last.returned

\* C28: every successful transition of the orchestrator is eventually
\* followed by the completed broadcast of its StateChange (old_state and
\* new_state of that transition), also when the loops are cancelled soon
\* after the transition.
C28_TransitionIsBroadcast ==
    \A n \in CastNames : Scheduled(n) ~> Emitted(n)

\* a handler of the orchestrator's loop has started and has not returned: it
\* is suspended in the send of _assign_task_for_current_state
InHandler == tasks["orchestrator"].st \in {"put", "woken"}

\* the number of messages waiting in the orchestrator's mailbox
OrchWaiting(qs) ==
    IF "orchestrator" \in DOMAIN qs THEN Len(qs["orchestrator"].items) ELSE 0

\* C29: the orchestrator's loop takes a message from its mailbox only when
\* the handling of the previous one has returned, and while a handler has not
\* returned no other task changes the phase, its history, the deliverable
\* tracking or the blockers, and no broadcast task starts (it reads the
\* phase for its progress field).
C29_HandlerRunsAlone ==
    [][/\ (OrchWaiting(queues') < OrchWaiting(queues) => ~InHandler)
       /\ (InHandler
             => \/ last'.op = "resume" /\ last'.who = "orchestrator"
                \/ /\ UNCHANGED <<current_state, state_history,
                                  deliverables_received, blockers>>
                   /\ last'.op # "broadcast_state_change")]_vars

\* C30: every step that changes the orchestrator's phase either is
\* start_project, which resets to idea and takes the edge idea -> analysis,
\* or moves the phase along one edge of TRANSITIONS and appends the new phase
\* to the history.
C30_PhaseFollowsTable ==
    [][current_state' # current_state
         => IF last'.op = "start_project"
            THEN /\ InList(current_state', TRANSITIONS[IDEA])
                 /\ state_history' = <<IDEA, current_state'>>
            ELSE /\ InList(current_state', TRANSITIONS[current_state])
                 /\ state_history' = Append(state_history, current_state')]_vars

\* a handled review with a NO-GO decision has sent the phase back from review
\* to implementation
C30_Witness ==
    /\ last.op = "handle"
    /\ last.msg.type = DELIVERABLE
    /\ current_state = IMPLEMENTATION
    /\ Len(state_history) >= 2
    /\ state_history[Len(state_history) - 1] = REVIEW

\* C31: no mailbox ever holds more than max_queue_size messages, whatever
\* the order of the direct sends, the broadcasts and the receives.
C31_MailboxBounded ==
    \A a \in DOMAIN queues : Len(queues[a].items) <= max_queue_size

\* a put that had to wait on a full mailbox has resumed after a receive and
\* has filled the mailbox again
C31_Witness ==
    /\ last.op = "resume"
    /\ last.returned
    /\ last.msg.to_agent \in DOMAIN queues
    /\ Len(queues[last.msg.to_agent].items) = max_queue_size

\* the number of messages held by all the mailboxes of qs
RECURSIVE HeldIn(_, _)
HeldIn(qs, A) ==
    IF A = {} THEN 0
    ELSE LET a == CHOOSE x \in A : TRUE
         IN Len(qs[a].items) + HeldIn(qs, A \ {a})

Held(qs) == HeldIn(qs, DOMAIN qs)

\* C32: a send or a broadcast that returns without having waited adds to
\* total_messages the number of messages it has put into mailboxes: one for
\* a direct send, one for each recipient mailbox for a broadcast.
C32_CounterCountsEnqueued ==
    [][(last'.op = "send" /\ last'.returned /\ nsent' = nsent + 1)
         => stats'.total_messages - stats.total_messages
              = Held(queues') - Held(queues)]_vars

\* C33: a message handled by the orchestrator while the phase is idea leaves
\* the phase at idea and assigns no Task; only start_project leaves idea.
C33_IdeaLeftOnlyByStart ==
    [][(last'.op = "handle" /\ current_state = IDEA)
         => (current_state' = IDEA /\ ~last'.assigned)]_vars

\* ------------------------------------------------------------------------
\* the project with deliverables that arrive late: the agent of the phase
\* just left submits its deliverable once more
\* ------------------------------------------------------------------------
\* the phase the orchestrator was in before the current one
PreviousPhase ==
    IF Len(state_history) >= 2 THEN state_history[Len(state_history) - 1] ELSE None

\* BaseAgent.submit_deliverable by the agent of the previous phase, with the
\* artifacts of that phase; the CTO's carries its decision
Late ==
    LET w == get_responsible_agent(PreviousPhase)
    IN IF PreviousPhase = None \/ w = "orchestrator"
          \/ w = get_responsible_agent(current_state)
       THEN {}
       ELSE {DeliverableMessage(w, get_required_deliverables(PreviousPhase),
                 IF PreviousPhase = REVIEW
                 THEN [decision |-> "NO-GO", score |-> 95] ELSE <<>>)}

NextLate ==
    \/ Quiet /\ nstarts = 0 /\ StartProject(FirstIdea)
    \/ Quiet /\ nstarts = 0 /\ OrchRun
    \/ OrchReceive
    \/ BroadcastStateChange
    \/ \E t \in DOMAIN tasks : TaskResume(t)
    \/ Quiet /\ \E m \in OnTrack : WorkerSend(m, 0)
    \/ Quiet /\ \E m \in OffTrack : WorkerSend(m, 1)
    \/ Quiet /\ \E m \in Late : WorkerSend(m, 1)
    \/ Quiet /\ nstarts = 0 /\ \E w \in ActiveWorkers : BusListen(w)
    \/ Quiet /\ \E w \in ActiveWorkers : BusReceive(w)

SpecLate == InitStart /\ [][NextLate]_vars

\* C34: a handled Deliverable changes the phase only when its sender is the
\* responsible agent of the phase that is current when it is handled.
C34_OnlyOwnerMovesPhase ==
    [][(/\ last'.op = "handle"
        /\ last'.msg.type = DELIVERABLE
        /\ current_state' # current_state)
         => last'.msg.from_agent = get_responsible_agent(current_state)]_vars

\* how many times x occurs in the list s
Occurrences(x, s) == Cardinality({i \in DOMAIN s : s[i] = x})

\* C35: with an empty artifact store, a handled Deliverable advances a phase
\* along the workflow only if every required deliverable of the phase has
\* been submitted in each of its visits: its name has been received for that
\* phase at least as many times as the phase has been entered.
C35_ReworkNeedsNewDeliverables ==
    [][(/\ last'.op = "handle"
        /\ last'.msg.type = DELIVERABLE
        /\ artifacts = {}
        /\ current_state' = get_next_state(current_state)
        /\ current_state' # current_state)
         => LET req == get_required_deliverables(current_state)
            IN \A i \in DOMAIN req :
                 Occurrences(req[i], Get(deliverables_received',
                                         current_state, <<>>))
                   >= Occurrences(current_state, state_history)]_vars

\* a step of the orchestrator (a handler or start_project) that calls
\* _assign_task_for_current_state
AssignsTask ==
    /\ last'.op \in {"handle", "start_project"}
    /\ last'.assigned

\* C36: the orchestrator assigns no Task while the phase is terminal and
\* addresses no Task to itself.
C36_NoTaskAtTerminalPhase ==
    [][AssignsTask
         => /\ current_state' \notin {DELIVERY, FAILED}
            /\ last'.task.to_agent # "orchestrator"]_vars

\* start_project has returned and no handler of the orchestrator is between
\* its start and its return
BetweenHandlers ==
    /\ nstarts > 0
    /\ tasks["main"].st = "idle"
    /\ ~InHandler

\* C40: once start_project has returned, between two handled messages
\* current_agent, which get_project_status reports, is the responsible agent
\* of the current phase.
C40_CurrentAgentOwnsPhase ==
    BetweenHandlers => current_agent = get_responsible_agent(current_state)

\* a handler's step that went through _advance_to_next_state and assigned a
\* task: every assigning step but the rework of a review that is not GO
HappyPathAdvance ==
    /\ last'.op = "handle"
    /\ last'.assigned
    /\ ~(/\ current_state = REVIEW
         /\ Get(last'.msg.content, "decision", "") \notin {"GO", "CONDITIONAL GO"})

\* C38: for every phase of workflow_order but Delivery, get_next_state is in
\* TRANSITIONS[phase]; so an advance of the orchestrator always enters the
\* next phase, and the Task it assigns is for the phase just entered.
C38_HappyPathAdvanceEnters ==
    /\ \A i \in 1..(Len(workflow_order) - 1) :
          can_transition_to(workflow_order[i], get_next_state(workflow_order[i]))
    /\ [][HappyPathAdvance
            => /\ can_transition_to(current_state, get_next_state(current_state))
               /\ current_state' = get_next_state(current_state)
               /\ current_state' # current_state
               /\ last'.task.content.state = current_state'
               /\ last'.task.to_agent = get_responsible_agent(current_state')]_vars

C38_Witness ==
    /\ last.op = "handle"
    /\ last.assigned
    /\ last.msg.from_agent = "qa"
    /\ current_state = REVIEW
    /\ last.task.content.state = REVIEW
    /\ Len(state_history) >= 2
    /\ state_history[Len(state_history) - 1] = TESTING

\* ------------------------------------------------------------------------
\* The state machine constructed with its default initial state: StateMachine()
\* ------------------------------------------------------------------------
InitIdea ==
    /\ Constructed(IDEA)
    /\ artifacts = {}
    /\ adrs = <<>>

SpecIdea == InitIdea /\ [][NextSM]_vars

\* C39: in a state machine started at Idea the history is never empty, starts
\* with Idea, ends with the current phase, and each phase in it is followed by
\* a phase of its TRANSITIONS entry.
C39_HistoryIsPathFromIdea ==
    /\ state_history # <<>>
    /\ state_history[1] = IDEA
    /\ state_history[Len(state_history)] = current_state
    /\ \A i \in 1..(Len(state_history) - 1) :
          InList(state_history[i + 1], TRANSITIONS[state_history[i]])

C39_Witness ==
    /\ last.op = "transition_to"
    /\ last.ret
    /\ Len(state_history) = MaxHistoryLen
    /\ current_state = ANALYSIS

\* ------------------------------------------------------------------------
\* agents/*.py: the team as implemented, every execute_task running to its
\* submit_deliverable
\* ------------------------------------------------------------------------
\* the names under which execute_task of agent w calls artifact_store.store
Stores(w) ==
    CASE w = "analyst" -> {"functional_spec.md", "user_stories.yaml"}
      [] w = "architect" -> {"architecture.md", "openapi.yaml", "decisions.md"}
      [] w = "designer" -> {"design_system.md"}
      [] w = "backend" -> {"backend_implementation.md"}
      [] w = "frontend" -> {"frontend_implementation.md"}
      [] w = "qa" -> {"test_plan.md", "test_results.md"}
      [] w = "cto" -> {"cto_review.md"}

\* the artifacts list execute_task of agent w passes to submit_deliverable
Submits(w) ==
    CASE w = "analyst" -> <<"functional_spec.md", "user_stories.yaml">>
      [] w = "architect" -> <<"architecture.md", "openapi.yaml", "decisions.md">>
      [] w = "designer" -> <<"design_system.md">>
      [] w = "backend" -> <<"backend_code">>
      [] w = "frontend" -> <<"frontend_code">>
      [] w = "qa" -> <<"test_plan.md", "test_results.md">>
      [] w = "cto" -> <<"cto_review.md">>

\* the artifacts execute_task of agent w refuses to work without
Needs(w) ==
    IF w = "architect" THEN {"functional_spec.md", "user_stories.yaml"} ELSE {}

\* execute_task of agent w sends its status before it asks the language model
TeamStatus(w) ==
    /\ tasks[w].st = "exec"
    /\ tasks[w].step = 1
    /\ LET message == IF Needs(w) \subseteq artifacts
                      THEN StatusMessage(w) ELSE ErrorMessage(w)
           r == send_direct(Bus, w, message, "exec2")
       IN /\ SetBus(r.bus)
          /\ tasks' = [tasks EXCEPT ![w] =
                          IF r.wait.st # "idle" THEN r.wait
                          ELSE IF Needs(w) \subseteq artifacts
                               THEN [@ EXCEPT !.step = 2] ELSE Idle]
          /\ last' = [op |-> "status", who |-> w, msg |-> message]
    /\ UNCHANGED <<smVars, bc_tasks, orchVars, loops, extVars, nsent, nstarts>>

\* the language model has answered: execute_task stores its artifacts and
\* submits its deliverable, the CTO's with the decision GO
TeamSubmit(w) ==
    /\ tasks[w].st = "exec"
    /\ tasks[w].step = 2
    /\ artifacts' = artifacts \cup Stores(w)
    /\ LET message == DeliverableMessage(w, Submits(w),
                          IF w = "cto" THEN [decision |-> "GO", score |-> 90]
                          ELSE <<>>)
           r == send_direct(Bus, w, message, "none")
       IN /\ SetBus(r.bus)
          /\ tasks' = [tasks EXCEPT ![w] = r.wait]
          /\ last' = [op |-> "submit", who |-> w, msg |-> message]
    /\ UNCHANGED <<smVars, bc_tasks, orchVars, loops, adrs, nsent, nstarts>>

\* what ArtifactStore.exists finds in the output directory when the program
\* starts: nothing, or what an earlier run or a person has put there
TeamStores == {{}, {"wireframes.md"}, {"wireframes.md", "frontend_code"}}

InitTeam ==
    /\ Constructed(IDEA)
    /\ artifacts \in TeamStores
    /\ adrs = <<>>

\* as in main.py every loop is started before start_project is called; every
\* agent receives as soon as it can, so no mailbox fills and no send waits
NextTeam ==
    \/ Quiet /\ nstarts = 0 /\ loops = Agents /\ StartProject(FirstIdea)
    \/ nstarts = 0 /\ OrchRun
    \/ nstarts = 0 /\ \E w \in Workers : BusListen(w)
    \/ OrchReceive
    \/ BroadcastStateChange
    \/ \E w \in Workers : LiveReceive(w)
    \/ LiveQuiet /\ \E w \in Workers : TeamStatus(w)
    \/ LiveQuiet /\ \E w \in Workers : TeamSubmit(w)

\* the event loop runs every ready callback and every execute_task runs to
\* its end
FairTeam ==
    /\ WF_vars(OrchReceive)
    /\ WF_vars(BroadcastStateChange)
    /\ WF_vars(\E w \in Workers : LiveReceive(w))
    /\ WF_vars(LiveQuiet /\ \E w \in Workers : TeamStatus(w))
    /\ WF_vars(LiveQuiet /\ \E w \in Workers : TeamSubmit(w))

SpecTeam == InitTeam /\ [][NextTeam]_vars /\ FairTeam

\* the project has been started and its first task assigned
TeamStarted ==
    /\ nstarts > 0
    /\ current_agent = "analyst"

\* C37: with the agents as implemented, none failing, no mailbox filling and
\* the review decision GO, what the tasked agents submit and store covers
\* each phase's required deliverables, so a started project reaches Delivery.
C37_TeamDelivers ==
    TeamStarted ~> (current_state = DELIVERY)

\* no send of the team's run has had to wait for room in a mailbox
TeamNeverWaits ==
    \A t \in DOMAIN tasks : tasks[t].st \notin {"put", "woken"}

====
